---- MODULE Spec2Model ----
(***************************************************************************)
(* The transaction stream consumer of aptos-indexer-processors             *)
(* (rust/aptos-indexer-transaction-stream/src/transaction_stream.rs):      *)
(* TransactionStream's cursor, its reconnection counter, the connection    *)
(* it owns and get_next_transaction_batch / reconnect_to_grpc / get_stream.*)
(***************************************************************************)
EXTENDS Integers, Sequences, FiniteSets, TLC

(***************************************************************************)
(* Bounds of the model.                                                    *)
(***************************************************************************)
\* Ledger versions the upstream can put in a raw batch: 0..MaxVersion.
MaxVersion == 3
\* Largest number of transactions in one raw batch.
MaxBatchLen == 3
\* Largest configured starting_version.
MaxStart == 1
\* Largest configured pb_channel_txn_chunk_size.
MaxChunk == 3
\* Longest run of consecutive not-success fetches that is explored.
MaxNotSuccessRun == 7

(***************************************************************************)
(* Program constants.                                                      *)
(***************************************************************************)
RECONNECTION_MAX_RETRIES == 5

\* Option::None of an Option<u64> / Option<Timestamp> (payloads are >= 0).
None == -1

Versions == 0..MaxVersion

(***************************************************************************)
(* Input domains.                                                          *)
(***************************************************************************)
\* Timestamp of the ledger transaction at version v; Transaction.timestamp
\* is optional in the protobuf, and the transaction at version 0 carries none.
TimestampOf(v) == IF v = 0 THEN None ELSE 100 + 10 * v

\* The Transaction message at ledger version v.
Txn(v) == [version |-> v, timestamp |-> TimestampOf(v)]

Transactions == {Txn(v) : v \in Versions}

\* The contiguous run of n ledger transactions from version first.
Run(first, n) == [i \in 1..n |-> Txn(first + i - 1)]

\* What the upstream can do to a run before sending it: nothing; lose its
\* second transaction; send it in reverse order; swap its last two
\* transactions.
Defects == {"none", "missing", "reversed", "swapped"}

Damage(run, defect) ==
    LET n == Len(run)
    IN CASE defect = "none" -> run
         [] defect = "missing" -> <<run[1]>> \o SubSeq(run, 3, n)
         [] defect = "reversed" -> [i \in 1..n |-> run[n + 1 - i]]
         [] defect = "swapped" ->
                SubSeq(run, 1, n - 2) \o <<run[n], run[n - 1]>>

\* The transaction lists of the raw batches the upstream can send: the empty
\* list, every run within Versions of up to MaxBatchLen transactions, and
\* every such run with one defect (a defect needs a run long enough to show).
RawTransactionLists ==
    {<<>>} \cup
    {Damage(Run(first, n), d) :
        <<first, n, d>> \in
            {x \in Versions \X (1..MaxBatchLen) \X Defects :
                /\ x[1] + x[2] - 1 <= MaxVersion
                /\ x[3] \in {"missing", "swapped"} => x[2] >= 3
                /\ x[3] = "reversed" => x[2] >= 2}}

\* chain ids a TransactionsResponse can carry (chain_id is optional).
ChainIds == {None, 1, 2}

\* What polling resp_stream under the per-item timeout can yield:
\*   Ok(Some(Ok(r))) "batch", Ok(Some(Err(e))) "rpc_error", Ok(None)
\*   "stream_end", Err(elapsed) "timeout".
BatchItems ==
    {[kind |-> "batch", transactions |-> t, chain_id |-> c] :
        t \in RawTransactionLists, c \in ChainIds}

NotSuccessKinds == {"rpc_error", "stream_end", "timeout"}

NotSuccessItems ==
    {[kind |-> k, transactions |-> <<>>, chain_id |-> None] : k \in NotSuccessKinds}

\* The transaction filters a stream is built with: a pure predicate over one
\* transaction.
Filters == {"all", "none", "even"}

\* TransactionFilter::include
Include(filter, txn) ==
    CASE filter = "all" -> TRUE
      [] filter = "none" -> FALSE
      [] filter = "even" -> txn.version % 2 = 0

\* Whether the build checks integer overflow (debug) and whether the info!
\* event of the success arm is enabled: both decide what `end_version -
\* start_version + 1` does when end_version < start_version.
Builds == {"release", "debug_info_enabled", "debug_info_disabled"}

(***************************************************************************)
(* Pure helpers of get_next_transaction_batch.                             *)
(***************************************************************************)
RECURSIVE SumLen(_)
\* prost's Message::encoded_len of the transactions: every transaction is a
\* length-delimited field whose size grows with its content.
SumLen(txns) ==
    IF txns = <<>> THEN 0
    ELSE (3 + Head(txns).version) + SumLen(Tail(txns))

\* r.encoded_len(): the transactions plus the chain_id field when present.
EncodedLen(r) == SumLen(r.transactions) + (IF r.chain_id = None THEN 0 ELSE 2)

RECURSIVE RetainSkipsAfterRemoval(_, _)
\* Retain that removes in place while walking by index: the element that
\* slides into a removed slot is kept without being tested.
RetainSkipsAfterRemoval(txns, filter) ==
    IF txns = <<>> THEN <<>>
    ELSE IF Include(filter, Head(txns))
         THEN <<Head(txns)>> \o RetainSkipsAfterRemoval(Tail(txns), filter)
         ELSE IF Tail(txns) = <<>> THEN <<>>
              ELSE <<Head(Tail(txns))>> \o
                       RetainSkipsAfterRemoval(Tail(Tail(txns)), filter)

RECURSIVE RetainReversed(_, _)
\* Retain that hands back the kept transactions last first.
RetainReversed(txns, filter) ==
    IF txns = <<>> THEN <<>>
    ELSE IF Include(filter, Head(txns))
         THEN RetainReversed(Tail(txns), filter) \o <<Head(txns)>>
         ELSE RetainReversed(Tail(txns), filter)

RECURSIVE Retain(_, _)
\* Vec::retain(|txn| filter.include(txn)): keeps order.
Retain(txns, filter) ==
    IF txns = <<>> THEN <<>>
    ELSE IF Include(filter, Head(txns))
         THEN <<Head(txns)>> \o Retain(Tail(txns), filter)
         ELSE Retain(Tail(txns), filter)

RECURSIVE IncludeCalls(_, _)
\* The transactions Vec::retain hands to the predicate, call by call: every
\* element once, front to back, whatever the predicate answers.
IncludeCalls(txns, filter) ==
    IF txns = <<>> THEN <<>>
    ELSE <<Head(txns)>> \o IncludeCalls(Tail(txns), filter)

\* A meter that takes every value twice.
TickNowTwice(ma, value) == Append(Append(ma, value), value)

\* MovingAverage::tick_now(value): the value joins the values the meter
\* averages.  The meter is followed fetch by fetch: it holds the values
\* ticked into it by the last call of get_next_transaction_batch.
tick_now(ma, value) == Append(ma, value)

Min(a, b) == IF a < b THEN a ELSE b

RECURSIVE ChunksExact(_, _)
\* Chunks without the shorter last group (slice::chunks_exact).
ChunksExact(txns, size) ==
    IF Len(txns) < size THEN <<>>
    ELSE <<SubSeq(txns, 1, size)>> \o ChunksExact(SubSeq(txns, size + 1, Len(txns)), size)

RECURSIVE Chunks(_, _)
\* itertools' .chunks(size): consecutive groups of `size` elements, the last
\* one shorter when the length is no multiple; no group for an empty input.
Chunks(txns, size) ==
    IF txns = <<>> THEN <<>>
    ELSE LET k == Min(size, Len(txns))
         IN <<SubSeq(txns, 1, k)>> \o Chunks(SubSeq(txns, k + 1, Len(txns)), size)

(***************************************************************************)
(* The connector, get_stream.                                              *)
(***************************************************************************)
\* Timeouts in a row that are tried: none, one fewer than the loop bears,
\* and as many as make it give up.
TimeoutCounts == {0, RECONNECTION_MAX_RETRIES - 1, RECONNECTION_MAX_RETRIES}

\* What the network does to one get_stream call: how many attempts of each
\* loop time out before one is answered, and whether that answer is a
\* client / a stream ("ok") or an error.  Only what get_stream gets to see
\* is drawn: it issues no request when connecting failed, and sees no answer
\* of a loop whose attempts all time out.
Networks ==
    {n \in [connect_timeouts : TimeoutCounts, connect : {"ok", "error"},
            request_timeouts : TimeoutCounts, request : {"ok", "error"}] :
        /\ n.connect_timeouts >= RECONNECTION_MAX_RETRIES => n.connect = "ok"
        /\ (n.connect_timeouts >= RECONNECTION_MAX_RETRIES \/ n.connect = "error") =>
              (n.request_timeouts = 0 /\ n.request = "ok")
        /\ n.request_timeouts >= RECONNECTION_MAX_RETRIES => n.request = "ok"}

\* The panic get_stream ends in, "" when it returns a stream.  Each loop
\* counts its timeouts in connect_retries and gives up when the count
\* reaches RECONNECTION_MAX_RETRIES; an answered attempt leaves the loop,
\* and an error answer panics right after it.
GetStreamPanic(net) ==
    IF net.connect_timeouts >= RECONNECTION_MAX_RETRIES
    THEN "[Parser] Timeout connecting to GRPC server"
    ELSE IF net.connect = "error"
    THEN "[Parser] Error connecting to GRPC client"
    ELSE IF net.request_timeouts >= RECONNECTION_MAX_RETRIES
    THEN "[Parser] Timed out making grpc request after max retries."
    ELSE IF net.request = "error"
    THEN "[Parser] Failed to get grpc response. Is the server running?"
    ELSE ""

\* Width of the machine integers, scaled down from 64: a u64 is in
\* 0..Word-1 and an i64 in -Word/2..Word/2-1.
WordBits == 4

Word == 2 ^ WordBits

\* `x as i64` of a u64, and the i64 an out-of-range result wraps to.
AsI64(x) == LET m == x % Word IN IF m >= Word \div 2 THEN m - Word ELSE m

\* `x as u64` of an i64.
AsU64(x) == x % Word

I64Overflows(x) == x < -(Word \div 2) \/ x >= Word \div 2

\* `v as i64 - starting_version as i64 + 1` step by step: the difference,
\* the sum, and whether either leaves the i64 range (a build with overflow
\* checks panics there, a build without them wraps).
CountArithmetic(cfg) ==
    LET difference == AsI64(cfg.request_ending_version)
                          - AsI64(cfg.starting_version)
        sum == AsI64(difference) + 1
    IN [overflows |-> I64Overflows(difference) \/ I64Overflows(sum),
        value |-> AsU64(AsI64(sum))]

\* transactions_count of the request:
\* request_ending_version.map(|v| (v as i64 - starting_version as i64 + 1)
\* as u64).
TransactionsCount(cfg) ==
    IF cfg.request_ending_version = None THEN None
    ELSE CountArithmetic(cfg).value

\* Whether computing the count panics in a build with overflow checks.
CountOverflows(cfg) ==
    /\ cfg.request_ending_version # None
    /\ CountArithmetic(cfg).overflows

\* The stream get_stream opens: the request it was opened with
\* (grpc_request_builder's starting_version and transactions_count).
GetStream(cfg) ==
    [starting_version |-> cfg.starting_version,
     transactions_count |-> TransactionsCount(cfg)]

\* What the x-aptos-connection-id header of a response can be: absent, or
\* an identifier the server chose.
NoHeader == "absent"

\* A header value that holds a byte outside visible ASCII (0x80..0xff are
\* valid in a header value).
OpaqueHeader == "opaque"

ConnectionHeaders == {NoHeader, "a", "b", OpaqueHeader}

\* MetadataValue::to_str is Err for a value with a byte outside visible
\* ASCII, and `.unwrap()` panics on it.
ToStrPanic(header) ==
    IF header = OpaqueHeader
    THEN "called Result::unwrap() on an Err value"
    ELSE ""

\* response.metadata().get(GRPC_CONNECTION_ID): the identifier, or the empty
\* string when the header is absent.
ConnectionId(header) == IF header = NoHeader THEN "" ELSE header

\* A reconnect that goes on reading the stream it had.
ReconnectedStreamKeepsOld(old, new) == old

\* `self.resp_stream = Some(response.into_inner())` in reconnect_to_grpc: the
\* stream of the new response takes the place of the old one, which is
\* dropped.
ReconnectedStream(old, new) == new

\* The connections of a stream that holds the connection get_stream opened
\* with the given header and has not polled it yet.
Connected(header) == [stream |-> header, opened |-> header, polled |-> "none"]

(***************************************************************************)
(* The durable-write pipeline of DefaultTransactionProcessor               *)
(* (rust/processor/src/processors/default_processor.rs): the rows of a     *)
(* batch, the storage's inserts, insert_to_db.                             *)
(***************************************************************************)
\* Most process_transactions calls that are followed one after the other.
MaxCalls == 2
\* Faults the storage can show in one atomic write: fault k > 0 makes its
\* k-th statement fail, or its commit when it has fewer statements.
MaxFault == 2
\* Most transactions handed to one TestContext::run permutation.
MaxTasks == 2
\* The storage's ceiling of bound parameters in one statement, scaled down.
MAX_DIESEL_PARAM_SIZE == 4

Faults == 0..MaxFault

\* The row collections process_transactions hands to insert_to_db.
Collections ==
    {"transactions", "user_transactions", "signatures",
     "block_metadata_transactions", "events", "write_set_changes",
     "move_modules", "move_resources", "table_items", "table_metadata"}

\* A storage with empty tables; a table is a set of stored rows.
EmptyDb == [c \in Collections |-> {}]

\* The type of the ledger transaction at version v.
TxnType(v) ==
    CASE v % 3 = 0 -> "user"
      [] v % 3 = 1 -> "block_metadata"
      [] OTHER -> "state_checkpoint"

\* Its text content: "nul" stands for text with a null byte in it, which
\* the storage rejects.
TextOf(v) == IF v % 4 = 3 THEN "nul" ELSE "plain"

\* The kind of its one write set change, and the handle of the table a
\* table change is about.
WscType(v) ==
    CASE v % 4 \in {0, 1} -> "table"
      [] v % 4 = 2 -> "resource"
      [] OTHER -> "module"

HandleOf(v) == IF v % 4 = 0 THEN 2 ELSE 1

\* One row to insert: its conflict key, a text column and the other columns.
Row(key, text, fixed) == [key |-> key, text |-> text, fixed |-> fixed]

\* TransactionDetail of a user or block metadata transaction.
TxnDetail(v) ==
    IF TxnType(v) = "user"
    THEN [tag |-> "User", row |-> Row(v, TextOf(v), "sender"),
          extra |-> <<Row(v, "plain", "ed25519")>>]
    ELSE [tag |-> "BlockMetadata", row |-> Row(v, "plain", "proposer"),
          extra |-> <<>>]

\* WriteSetChangeDetail of the write set change of transaction v; a table
\* change comes with the metadata of its table.
WscDetail(v) ==
    CASE WscType(v) = "module" ->
            [tag |-> "Module", row |-> Row(v, TextOf(v), "bytecode"), extra |-> <<>>]
      [] WscType(v) = "resource" ->
            [tag |-> "Resource", row |-> Row(v, TextOf(v), "data"), extra |-> <<>>]
      [] OTHER ->
            [tag |-> "Table", row |-> Row(v, TextOf(v), "decoded_value"),
             extra |-> <<Row(HandleOf(v), "plain", "key_type")>>]

\* TransactionModel::from_transactions: (txns, txn_details, events,
\* write_set_changes, wsc_details), in the order of the transactions.
FromTransactions(transactions) ==
    LET n == Len(transactions)
        v(i) == transactions[i].version
        detailed == SelectSeq(transactions,
                              LAMBDA t : TxnType(t.version) # "state_checkpoint")
    IN [txns |-> [i \in 1..n |-> Row(v(i), TextOf(v(i)), TxnType(v(i)))],
        txn_details |-> [i \in 1..Len(detailed) |-> TxnDetail(detailed[i].version)],
        events |-> [i \in 1..n |-> Row(v(i), TextOf(v(i)), "event")],
        write_set_changes |-> [i \in 1..n |-> Row(v(i), "plain", WscType(v(i)))],
        wsc_details |-> [i \in 1..n |-> WscDetail(v(i))]]

\* The rows of the details with the given tag, in order.
RowsTagged(details, tag) ==
    LET sel == SelectSeq(details, LAMBDA d : d.tag = tag)
    IN [i \in 1..Len(sel) |-> sel[i].row]

RECURSIVE ExtraTagged(_, _)
\* What the details with the given tag carry besides their row, in order.
ExtraTagged(details, tag) ==
    IF details = <<>> THEN <<>>
    ELSE (IF Head(details).tag = tag THEN Head(details).extra ELSE <<>>)
             \o ExtraTagged(Tail(details), tag)

RECURSIVE SortedKeys(_)
\* The keys of a set in increasing order.
SortedKeys(keys) ==
    IF keys = {} THEN <<>>
    ELSE LET least == CHOOSE k \in keys : \A other \in keys : k <= other
         IN <<least>> \o SortedKeys(keys \ {least})

\* table_metadata that keeps the first entry of every handle.
TableMetadataFirstWins(metas) ==
    LET handles == SortedKeys({metas[i].key : i \in 1..Len(metas)})
        first(h) == CHOOSE i \in 1..Len(metas) :
                       /\ metas[i].key = h
                       /\ \A j \in 1..Len(metas) : metas[j].key = h => i <= j
    IN [k \in 1..Len(handles) |-> metas[first(handles[k])]]

\* table_metadata: a HashMap keyed by handle filled in order (a later entry
\* replaces an earlier one of the same handle), its values sorted by handle.
TableMetadata(metas) ==
    LET handles == SortedKeys({metas[i].key : i \in 1..Len(metas)})
        last(h) == CHOOSE i \in 1..Len(metas) :
                      /\ metas[i].key = h
                      /\ \A j \in 1..Len(metas) : metas[j].key = h => j <= i
    IN [k \in 1..Len(handles) |-> metas[last(handles[k])]]

\* The ten row collections process_transactions derives from a batch.
RowCollections(transactions) ==
    LET parsed == FromTransactions(transactions)
    IN [c \in Collections |->
          CASE c = "transactions" -> parsed.txns
            [] c = "user_transactions" -> RowsTagged(parsed.txn_details, "User")
            [] c = "signatures" -> ExtraTagged(parsed.txn_details, "User")
            [] c = "block_metadata_transactions" ->
                  RowsTagged(parsed.txn_details, "BlockMetadata")
            [] c = "events" -> parsed.events
            [] c = "write_set_changes" -> parsed.write_set_changes
            [] c = "move_modules" -> RowsTagged(parsed.wsc_details, "Module")
            [] c = "move_resources" -> RowsTagged(parsed.wsc_details, "Resource")
            [] c = "table_items" -> RowsTagged(parsed.wsc_details, "Table")
            [] c = "table_metadata" ->
                  TableMetadata(ExtraTagged(parsed.wsc_details, "Table"))]

\* clean_data_for_db(items, true): null bytes are taken out of the text.
clean_data_for_db(items) ==
    [i \in 1..Len(items) |->
        [items[i] EXCEPT !.text = IF @ = "nul" THEN "stripped" ELSE @]]

\* Every collection passed through clean_data_for_db.
CleanCollections(rows) == [c \in Collections |-> clean_data_for_db(rows[c])]

\* FieldCount::field_count of a collection's model, scaled down.
FieldCount(c) == 2

\* get_chunks: the (start_ind, end_ind) slices of num_items rows that keep a
\* statement under MAX_DIESEL_PARAM_SIZE parameters.
get_chunks(num_items, column_count) ==
    LET max_item_size == MAX_DIESEL_PARAM_SIZE \div column_count
        count == (num_items + max_item_size - 1) \div max_item_size
    IN [i \in 1..count |->
          <<(i - 1) * max_item_size, Min(num_items, i * max_item_size)>>]

RECURSIVE InsertAboveHighest(_, _, _)
\* An insert that takes a row only when its key is above every stored key.
InsertAboveHighest(table, items, now) ==
    IF items = <<>> THEN table
    ELSE InsertAboveHighest(
             IF \E s \in table : s.row.key >= Head(items).key
             THEN table
             ELSE table \cup {[row |-> Head(items), inserted_at |-> now]},
             Tail(items), now)

RECURSIVE InsertDoNothing(_, _, _)
\* insert_into(..).values(items).on_conflict(key).do_nothing(): a row whose
\* key is stored already is dropped; inserted_at defaults to now().
InsertDoNothing(table, items, now) ==
    IF items = <<>> THEN table
    ELSE InsertDoNothing(
             IF \E s \in table : s.row.key = Head(items).key
             THEN table
             ELSE table \cup {[row |-> Head(items), inserted_at |-> now]},
             Tail(items), now)

RECURSIVE InsertDoUpdate(_, _, _)
\* insert_into(..).values(items).on_conflict(version).do_update().set(
\* (entry_function_id_str, inserted_at)): of a row whose key is stored
\* already only the text column and inserted_at take the new values.
InsertDoUpdate(table, items, now) ==
    IF items = <<>> THEN table
    ELSE LET r == Head(items)
             same == {s \in table : s.row.key = r.key}
             refreshed == {[row |-> [s.row EXCEPT !.text = r.text],
                            inserted_at |-> now] : s \in same}
         IN InsertDoUpdate(
                IF same = {} THEN table \cup {[row |-> r, inserted_at |-> now]}
                ELSE (table \ same) \cup refreshed,
                Tail(items), now)

\* The insert statement of each collection's insert_* function.
Insert(c, table, items, now) ==
    IF c = "user_transactions" THEN InsertDoUpdate(table, items, now)
    ELSE InsertDoNothing(table, items, now)

\* The statements one insert_* function issues: one per chunk of its rows.
InsertStatements(c, items) ==
    LET chunks == get_chunks(Len(items), FieldCount(c))
    IN [i \in 1..Len(chunks) |->
          [collection |-> c,
           items |-> SubSeq(items, chunks[i][1] + 1, chunks[i][2])]]

\* The insert_* functions insert_to_db_impl calls, in order.
InsertToDbImplCalls == <<"transactions">>

RECURSIVE StatementsOf(_, _)
\* The statements of the listed insert_* functions on their collections.
StatementsOf(calls, rows) ==
    IF calls = <<>> THEN <<>>
    ELSE InsertStatements(Head(calls), rows[Head(calls)])
             \o StatementsOf(Tail(calls), rows)

\* The storage rejects a statement that carries text with a null byte.
Rejected(statement) ==
    \E i \in 1..Len(statement.items) : statement.items[i].text = "nul"

RECURSIVE Execute(_, _, _, _, _)
\* execute_with_better_error, statement after statement with `?`: the
\* first statement that fails ends the closure; the statements before it
\* have changed conn.  `done` counts the statements that went through.
Execute(conn, statements, now, fault, done) ==
    IF statements = <<>> THEN [ok |-> TRUE, conn |-> conn, done |-> done]
    ELSE LET st == Head(statements)
         IN IF fault = done + 1 \/ Rejected(st)
            THEN [ok |-> FALSE, conn |-> conn, done |-> done]
            ELSE Execute([conn EXCEPT ![st.collection] =
                              Insert(st.collection, @, st.items, now)],
                         Tail(statements), now, fault, done + 1)

\* insert_to_db_impl inside the closure of one storage transaction.
insert_to_db_impl(conn, rows, now, fault) ==
    Execute(conn, StatementsOf(InsertToDbImplCalls, rows), now, fault, 0)

\* A storage transaction that keeps what its statements wrote when it fails.
RunKeepsPartialWrites(committed, body, commit_fails) ==
    [ok |-> body.ok /\ ~commit_fails, db |-> body.conn, done |-> body.done]

\* conn.build_transaction().read_write().run(closure): the closure's writes
\* are committed when it returns Ok and the commit goes through, and rolled
\* back otherwise.
BuildTransactionRun(committed, body, commit_fails) ==
    IF body.ok /\ ~commit_fails
    THEN [ok |-> TRUE, db |-> body.conn, done |-> body.done]
    ELSE [ok |-> FALSE, db |-> committed, done |-> body.done]

\* One atomic write of insert_to_db on the given rows.
AtomicWrite(committed, rows, now, fault) ==
    LET body == insert_to_db_impl(committed, rows, now, fault)
        commit_fails == fault > body.done /\ body.ok
        tx == BuildTransactionRun(committed, body, commit_fails)
    IN [ok |-> tx.ok, db |-> tx.db,
        write |-> [rows |-> rows, ok |-> tx.ok, done |-> tx.done]]

\* insert_to_db that retries with the rows as they were.
InsertToDbRetriesUncleaned(committed, rows, now, fault1, fault2) ==
    LET first == AtomicWrite(committed, rows, now, fault1)
        second == AtomicWrite(first.db, rows, now, fault2)
    IN IF first.ok
       THEN [ok |-> TRUE, db |-> first.db, writes |-> <<first.write>>]
       ELSE [ok |-> second.ok, db |-> second.db,
             writes |-> <<first.write, second.write>>]

\* insert_to_db: the atomic write; when it fails, every collection through
\* clean_data_for_db and the atomic write once more, whose result is
\* returned.
insert_to_db(committed, rows, now, fault1, fault2) ==
    LET first == AtomicWrite(committed, rows, now, fault1)
        second == AtomicWrite(first.db, CleanCollections(rows), now, fault2)
    IN IF first.ok
       THEN [ok |-> TRUE, db |-> first.db, writes |-> <<first.write>>]
       ELSE [ok |-> second.ok, db |-> second.db,
             writes |-> <<first.write, second.write>>]

\* process_transactions' result that acknowledges whatever the write did.
ProcessingResultAlwaysOk(tx_ok, start_version, end_version) ==
    [tag |-> "Ok", range |-> <<start_version, end_version>>]

\* process_transactions' return value: Ok((start_version, end_version)) or
\* the error of the write (bail!).
ProcessingResult(tx_ok, start_version, end_version) ==
    IF tx_ok THEN [tag |-> "Ok", range |-> <<start_version, end_version>>]
    ELSE [tag |-> "Err", range |-> <<>>]

\* The batches a processor is handed: the filtered transactions of a run of
\* the ledger together with the span of the run.
SinkBatches ==
    {[transactions |-> Retain(Run(first, n), f),
      start_version |-> first,
      end_version |-> first + n - 1] :
        <<first, n, f>> \in
            {x \in Versions \X (1..MaxBatchLen) \X Filters :
                x[1] + x[2] - 1 <= MaxVersion}}

(***************************************************************************)
(* Event deduplication (rust/processor/src/db/common/models/mod.rs).       *)
(***************************************************************************)
\* V1_TO_V2_MAPPING: the (v1 event type, v2 event type) entries of the map.
V1_TO_V2_MAPPING ==
    {<<"0x1::aptos_governance::VoteEvent", "0x1::aptos_governance::Vote">>,
     <<"0x1::coin::CoinDepositEvent", "0x1::coin::CoinDeposit">>,
     <<"0x1::coin::CoinWithdrawEvent", "0x1::coin::CoinWithdraw">>,
     <<"0x1::delegation_pool::AddStakeEvent", "0x1::delegation_pool::AddStake">>,
     <<"0x1::delegation_pool::UnlockStakeEvent",
       "0x1::delegation_pool::UnlockStake">>,
     <<"0x1::delegation_pool::WithdrawStakeEvent",
       "0x1::delegation_pool::WithdrawStake">>,
     <<"0x1::delegation_pool::ReactivateStakeEvent",
       "0x1::delegation_pool::ReactivateStake">>,
     <<"0x1::object::TransferEvent", "0x1::object::Transfer">>,
     <<"0x1::stake::DistributeRewardsEvent", "0x1::stake::DistributeRewards">>,
     <<"0x3::token::MintTokenEvent", "0x3::token::MintToken">>,
     <<"0x3::token::BurnTokenEvent", "0x3::token::BurnToken">>,
     <<"0x3::token::MutateTokenPropertyMapEvent",
       "0x3::token::MutateTokenPropertyMap">>,
     <<"0x3::token::WithdrawEvent", "0x3::token::Withdraw">>,
     <<"0x3::token::DepositEvent", "0x3::token::Deposit">>,
     <<"0x3::token_transfers::TokenOfferEvent",
       "0x3::token_transfers::TokenOffer">>,
     <<"0x3::token_transfers::TokenCancelOfferEvent",
       "0x3::token_transfers::TokenCancelOffer">>,
     <<"0x3::token_transfers::TokenClaimEvent",
       "0x3::token_transfers::TokenClaim">>,
     <<"0x4::token::MutationEvent", "0x4::token::Mutation">>}

\* AHashMap::get: Some(value) of the entry with the key, None without one;
\* an Option is <<>> or <<value>>.
MappingGet(key) ==
    LET entries == {e \in V1_TO_V2_MAPPING : e[1] = key}
    IN IF entries = {} THEN <<>>
       ELSE <<(CHOOSE e \in entries : TRUE)[2]>>

\* The type strings an event can carry: the mapped v1 types, their v2
\* types, the empty string of Event::default() and an unmapped type.
EventTypes ==
    {e[1] : e \in V1_TO_V2_MAPPING} \cup {e[2] : e \in V1_TO_V2_MAPPING}
        \cup {"", "0x1::account::KeyRotationEvent"}

Events == {[type_str |-> t] : t \in EventTypes}

\* Option<&Event>
OptionalEvents == {<<>>} \cup {<<e>> : e \in Events}

\* should_skip that takes a v1 event after any v2 event of the map.
ShouldSkipAfterAnyV2(event, prev_event) ==
    /\ MappingGet(event.type_str) # <<>>
    /\ prev_event # <<>>
    /\ \E e \in V1_TO_V2_MAPPING : e[2] = prev_event[1].type_str

\* should_skip(event, prev_event)
should_skip(event, prev_event) ==
    LET prev_event_type == MappingGet(event.type_str)
    IN IF prev_event_type # <<>> /\ prev_event # <<>>
       THEN prev_event_type[1] = prev_event[1].type_str
       ELSE FALSE

(***************************************************************************)
(* State.                                                                  *)
(***************************************************************************)
VARIABLES
    transaction_stream_config,  \* [starting_version, request_ending_version]
    transaction_filter,         \* the predicate the stream was built with
    pb_channel_txn_chunk_size,  \* chunk threshold
    resp_stream,                \* the open stream: the request it answers
    next_version_to_fetch,
    reconnection_retries,
    last_fetched_version,
    panicked,                   \* "" while the process runs, else the panic
    response,                   \* what the last call polled from resp_stream
    output,                     \* <<>> or <<TransactionStreamOutput>> of the last call
    accepted_end,               \* end_version of the last accepted raw batch
    not_success_run,            \* consecutive not-success fetches so far
    fetch_ma,                   \* the meter: the values the last call ticked in
    include_calls,              \* transactions the last call asked the filter about
    filtered_out,               \* what the last call added to the filtered-out counter
    connection_id,              \* the identifier of the connection held
    connections                 \* [stream, opened, polled]: whose stream resp_stream
                                \* is, the connection opened last, the one polled last

\* One call of get_stream, attempt by attempt.
VARIABLES
    get_stream_at,              \* "idle", "connect", "request" or "returned"
    connect_retries,            \* the counter of the loop the call is in
    attempts,                   \* attempts made so far: [connect, request]
    last_attempt                \* outcome of the latest attempt

\* The storage and the calls of DefaultTransactionProcessor.
VARIABLES
    db,                         \* the committed tables
    clock,                      \* the storage's now(): one tick per call
    call,                       \* the batch the last process_transactions got
    writes,                     \* the atomic writes the last call ran
    result,                     \* what the last call returned
    tasks                       \* the tasks of one TestContext::run permutation

\* One call of should_skip.
VARIABLES
    event,                      \* the current event
    prev_event,                 \* the event before it: <<>> or <<event>>
    skip                        \* <<>> before the call, then <<what it returned>>

\* One call of get_chain_id.
VARIABLES
    chain_id_call               \* [at, request, first, chain_id, moved]: the last
                                \* call, and whether a call took the stream

\* The write set change details of one process_transactions call.
VARIABLES
    grouping                    \* [at, wsc_details, table_metadata]

\* One call of EventStreamProcessor::process_transactions.
VARIABLES
    event_stream                \* [at, transactions, start_version, end_version,
                                \* batch, cache, result, panic]

\* TransactionStream::new.
VARIABLES
    construction                \* [at, get_stream_calls]: where new is, and the
                                \* calls of the connector it has made

\* Two runs of the stream on the same inputs, one after the other.
VARIABLES
    runs                        \* [phase, inputs, trace, pos]: what the first run
                                \* was given and returned, and how far the second is

stream_vars ==
    <<transaction_stream_config, transaction_filter, pb_channel_txn_chunk_size,
      resp_stream, next_version_to_fetch, reconnection_retries,
      last_fetched_version, panicked, response, output, accepted_end,
      not_success_run, fetch_ma, include_calls, filtered_out, connection_id,
      connections>>

connector_vars == <<get_stream_at, connect_retries, attempts, last_attempt>>

sink_vars == <<db, clock, call, writes, result, tasks>>

event_vars == <<event, prev_event, skip>>

\* What the operations followed on their own are made of.
oneshot_vars ==
    <<chain_id_call, runs, grouping, construction, event_stream>>

vars == <<stream_vars, connector_vars, sink_vars, event_vars, oneshot_vars>>

config_vars ==
    <<transaction_stream_config, transaction_filter, pb_channel_txn_chunk_size>>

meter_vars == <<fetch_ma, include_calls, filtered_out>>

connection_vars == <<connection_id, connections>>

\* Configurations: an optional inclusive ending version not below the
\* starting version.
Configs ==
    {c \in [starting_version : 0..MaxStart,
            request_ending_version : {None} \cup Versions] :
        c.request_ending_version = None
        \/ c.starting_version <= c.request_ending_version}

NoResponse == [kind |-> "none", transactions |-> <<>>, chain_id |-> None]

\* No get_stream call is being followed attempt by attempt.
NoGetStreamCall ==
    /\ get_stream_at = "idle"
    /\ connect_retries = 0
    /\ attempts = [connect |-> 0, request |-> 0]
    /\ last_attempt = "none"

NoCall == [transactions |-> <<>>, start_version |-> None, end_version |-> None]

NoResult == [tag |-> "none", range |-> <<>>]

NoTasks == [unspawned |-> <<>>, spawned |-> <<>>]

\* No event is looked at.
NoEvents ==
    /\ event = [type_str |-> ""]
    /\ prev_event = <<>>
    /\ skip = <<>>

\* get_chain_id before it is called: no stream requested, nothing polled,
\* no chain id returned, and the TransactionStream not moved into a call.
NoChainIdCall ==
    [at |-> "idle",
     request |-> [starting_version |-> None, transactions_count |-> None],
     first |-> [kind |-> "none", chain_id |-> None],
     chain_id |-> None,
     moved |-> FALSE]

\* The first run before its first call: nothing is kept of it yet.
NoRuns == [phase |-> "first", inputs |-> <<>>, trace |-> <<>>, pos |-> 0]

\* No write set change details are being grouped.
NoGrouping == [at |-> "idle", wsc_details |-> <<>>, table_metadata |-> <<>>]

\* new has returned the stream, after its one call of the connector.
Constructed == [at |-> "built", get_stream_calls |-> 1]

\* EventStreamProcessor::process_transactions is not called: nothing is
\* transformed, inserted into the cache or returned.
NoProcessing ==
    [at |-> "idle", transactions |-> <<>>, start_version |-> None,
     end_version |-> None, batch |-> <<>>, cache |-> <<>>,
     result |-> <<>>, panic |-> ""]

\* None of the operations followed on their own has been called.
NoOneShots ==
    /\ chain_id_call = NoChainIdCall
    /\ runs = NoRuns
    /\ grouping = NoGrouping
    /\ construction = Constructed
    /\ event_stream = NoProcessing

\* No processor: an empty storage nobody writes to.
NoSink ==
    /\ db = EmptyDb
    /\ clock = 0
    /\ call = NoCall
    /\ writes = <<>>
    /\ result = NoResult
    /\ tasks = NoTasks
    /\ NoEvents
    /\ NoOneShots

\* MovingAverage::new and nothing metered, filtered or counted yet.
NewMeter ==
    /\ fetch_ma = <<>>
    /\ include_calls = <<>>
    /\ filtered_out = None

\* init_stream: the identifier and the stream of the response get_stream
\* returned.
InitStream(header) ==
    /\ connection_id = ConnectionId(header)
    /\ connections = Connected(header)

\* TransactionStream::new: the fields it sets, then init_stream, here with
\* a server that sends no connection identifier.
Init ==
    /\ transaction_stream_config \in Configs
    /\ transaction_filter \in Filters
    /\ pb_channel_txn_chunk_size \in 1..MaxChunk
    /\ resp_stream = GetStream(transaction_stream_config)
    /\ next_version_to_fetch = transaction_stream_config.starting_version
    /\ reconnection_retries = 0
    /\ last_fetched_version = transaction_stream_config.starting_version - 1
    /\ panicked = ""
    /\ response = NoResponse
    /\ output = <<>>
    /\ accepted_end = None
    /\ not_success_run = 0
    /\ NewMeter
    /\ InitStream(NoHeader)
    /\ NoGetStreamCall
    /\ NoSink

(***************************************************************************)
(* get_next_transaction_batch: the success arm, Some(Ok(r)).               *)
(***************************************************************************)
\* ContiguityOk with the comparison loosened: a batch that starts beyond
\* last + 1 passes.
ContiguityOkAllowsGaps(last, start_version) == last + 1 <= start_version

\* ContiguityOk that lets a batch start at or before last + 1: versions
\* delivered again pass.
ContiguityOkAllowsReplay(last, start_version) == start_version <= last + 1

\* The contiguity check: the batch is accepted when it starts right after
\* the last fetched version.
ContiguityOk(last, start_version) == last + 1 = start_version

\* A cursor that stays on the last version of the batch.
AdvanceNextStays(end_version) == end_version

\* next_version_to_fetch after a raw batch ending at end_version.
AdvanceNext(end_version) == end_version + 1

\* `end_version - start_version + 1` on u64: a debug build panics when the
\* subtraction underflows, a release build wraps.
SpanUnderflows(start_version, end_version) == end_version < start_version

\* One TransactionsPBResponse.
PBResponse(txns, chain_id, start_version, end_version, start_ts, end_ts, size) ==
    [transactions |-> txns,
     chain_id |-> chain_id,
     start_version |-> start_version,
     end_version |-> end_version,
     start_txn_timestamp |-> start_ts,
     end_txn_timestamp |-> end_ts,
     size_in_bytes |-> size]

\* CarveBatches with every chunk reporting the span of its own transactions.
CarveBatchesNarrowSpan(r, filter, chunk_size) ==
    LET start_version == Head(r.transactions).version
        start_ts == Head(r.transactions).timestamp
        end_version == r.transactions[Len(r.transactions)].version
        end_ts == r.transactions[Len(r.transactions)].timestamp
        size_in_bytes == EncodedLen(r)
        num_txns == Len(r.transactions)
        filtered == Retain(r.transactions, filter)
    IN IF Len(filtered) < chunk_size
       THEN <<PBResponse(filtered, r.chain_id, start_version, end_version,
                         start_ts, end_ts, size_in_bytes)>>
       ELSE LET average_size_in_bytes == size_in_bytes \div num_txns
                pb_txn_chunks == Chunks(filtered, chunk_size)
            IN [i \in 1..Len(pb_txn_chunks) |->
                   LET c == pb_txn_chunks[i]
                   IN PBResponse(c, r.chain_id, c[1].version, c[Len(c)].version,
                                 c[1].timestamp, c[Len(c)].timestamp,
                                 average_size_in_bytes * Len(c))]

\* CarveBatches that measures the batch after the filter ran.
CarveBatchesMeasuresFiltered(r, filter, chunk_size) ==
    LET start_version == Head(r.transactions).version
        start_ts == Head(r.transactions).timestamp
        end_version == r.transactions[Len(r.transactions)].version
        end_ts == r.transactions[Len(r.transactions)].timestamp
        filtered == Retain(r.transactions, filter)
        size_in_bytes == EncodedLen([r EXCEPT !.transactions = filtered])
        num_txns == Len(r.transactions)
    IN IF Len(filtered) < chunk_size
       THEN <<PBResponse(filtered, r.chain_id, start_version, end_version,
                         start_ts, end_ts, size_in_bytes)>>
       ELSE LET average_size_in_bytes == size_in_bytes \div num_txns
                pb_txn_chunks == Chunks(filtered, chunk_size)
            IN [i \in 1..Len(pb_txn_chunks) |->
                   PBResponse(pb_txn_chunks[i], r.chain_id, start_version,
                              end_version, start_ts, end_ts,
                              average_size_in_bytes * Len(pb_txn_chunks[i]))]

\* CarveBatches with every chunk measured again: its size is the encoded
\* length of its own transactions.
CarveBatchesMeasuredChunks(r, filter, chunk_size) ==
    LET start_version == Head(r.transactions).version
        start_ts == Head(r.transactions).timestamp
        end_version == r.transactions[Len(r.transactions)].version
        end_ts == r.transactions[Len(r.transactions)].timestamp
        size_in_bytes == EncodedLen(r)
        filtered == Retain(r.transactions, filter)
    IN IF Len(filtered) < chunk_size
       THEN <<PBResponse(filtered, r.chain_id, start_version, end_version,
                         start_ts, end_ts, size_in_bytes)>>
       ELSE LET pb_txn_chunks == Chunks(filtered, chunk_size)
            IN [i \in 1..Len(pb_txn_chunks) |->
                   PBResponse(pb_txn_chunks[i], r.chain_id, start_version,
                              end_version, start_ts, end_ts,
                              SumLen(pb_txn_chunks[i]))]

\* CarveBatches that chunks whatever the filter left: nothing is carved
\* from a batch the filter emptied.
CarveBatchesAlwaysChunks(r, filter, chunk_size) ==
    LET start_version == Head(r.transactions).version
        start_ts == Head(r.transactions).timestamp
        end_version == r.transactions[Len(r.transactions)].version
        end_ts == r.transactions[Len(r.transactions)].timestamp
        size_in_bytes == EncodedLen(r)
        num_txns == Len(r.transactions)
        average_size_in_bytes == size_in_bytes \div num_txns
        pb_txn_chunks == Chunks(Retain(r.transactions, filter), chunk_size)
    IN [i \in 1..Len(pb_txn_chunks) |->
           PBResponse(pb_txn_chunks[i], r.chain_id, start_version,
                      end_version, start_ts, end_ts,
                      average_size_in_bytes * Len(pb_txn_chunks[i]))]

\* CarveBatches with every chunk reporting the size of the whole raw batch.
CarveBatchesWholeSizeChunks(r, filter, chunk_size) ==
    LET start_version == Head(r.transactions).version
        start_ts == Head(r.transactions).timestamp
        end_version == r.transactions[Len(r.transactions)].version
        end_ts == r.transactions[Len(r.transactions)].timestamp
        size_in_bytes == EncodedLen(r)
        filtered == Retain(r.transactions, filter)
    IN IF Len(filtered) < chunk_size
       THEN <<PBResponse(filtered, r.chain_id, start_version, end_version,
                         start_ts, end_ts, size_in_bytes)>>
       ELSE LET pb_txn_chunks == Chunks(filtered, chunk_size)
            IN [i \in 1..Len(pb_txn_chunks) |->
                   PBResponse(pb_txn_chunks[i], r.chain_id, start_version,
                              end_version, start_ts, end_ts, size_in_bytes)]

\* The output batches carved from raw batch r (non-empty, with a chain id):
\* one batch when the filtered count is below the threshold, else one per
\* chunk; the span, the timestamps and the chain id are those read from r
\* before the filter ran.
CarveBatches(r, filter, chunk_size) ==
    LET start_version == Head(r.transactions).version
        start_ts == Head(r.transactions).timestamp
        end_version == r.transactions[Len(r.transactions)].version
        end_ts == r.transactions[Len(r.transactions)].timestamp
        size_in_bytes == EncodedLen(r)
        num_txns == Len(r.transactions)
        filtered == Retain(r.transactions, filter)
        num_txn_post_filter == Len(filtered)
    IN IF num_txn_post_filter < chunk_size
       THEN <<PBResponse(filtered, r.chain_id, start_version, end_version,
                         start_ts, end_ts, size_in_bytes)>>
       ELSE LET average_size_in_bytes == size_in_bytes \div num_txns
                pb_txn_chunks == Chunks(filtered, chunk_size)
            IN [i \in 1..Len(pb_txn_chunks) |->
                   PBResponse(pb_txn_chunks[i], r.chain_id, start_version,
                              end_version, start_ts, end_ts,
                              average_size_in_bytes * Len(pb_txn_chunks[i]))]

\* The success arm on raw batch r, statement by statement, up to the value
\* of is_success: the cursor at the end of the arm or at the panic that
\* leaves it, the panic ("" when the arm completes) and the batches pushed;
\* what was ticked into fetch_ma (nothing when the arm left before it),
\* the transactions the filter was asked about, and what was added to
\* NUM_TRANSACTIONS_FILTERED_OUT_COUNT (None when the arm left before it).
SuccessArm(r, last, next, filter, chunk_size, build) ==
    IF r.transactions = <<>>
    THEN [panic |-> "called Option::unwrap() on a None value",
          next |-> next, last |-> last, batches |-> <<>>,
          ticks |-> <<>>, include_calls |-> <<>>, filtered_out |-> None]
    ELSE
    LET start_version == Head(r.transactions).version
        end_version == r.transactions[Len(r.transactions)].version
        next1 == AdvanceNext(end_version)
        num_txns == Len(r.transactions)
        calls == IncludeCalls(r.transactions, filter)
        num_txn_post_filter == Len(Retain(r.transactions, filter))
        num_filtered_txns == num_txns - num_txn_post_filter
    IN IF r.chain_id = None
       THEN [panic |-> "[Parser] Chain Id doesn't exist.",
             next |-> next1, last |-> last, batches |-> <<>>,
             ticks |-> <<>>, include_calls |-> <<>>, filtered_out |-> None]
       ELSE IF (build = "debug_info_enabled" /\ SpanUnderflows(start_version, end_version))
       THEN [panic |-> "attempt to subtract with overflow",
             next |-> next1, last |-> last, batches |-> <<>>,
             ticks |-> tick_now(<<>>, num_txns), include_calls |-> calls, filtered_out |-> None]
       ELSE IF ~ContiguityOk(last, start_version)
       THEN [panic |-> "[Parser] Received batch with gap from GRPC stream",
             next |-> next1, last |-> last, batches |-> <<>>,
             ticks |-> tick_now(<<>>, num_txns), include_calls |-> calls, filtered_out |-> None]
       ELSE IF (build = "debug_info_disabled" /\ SpanUnderflows(start_version, end_version))
       THEN [panic |-> "attempt to subtract with overflow",
             next |-> next1, last |-> end_version, batches |-> <<>>,
             ticks |-> tick_now(<<>>, num_txns), include_calls |-> calls, filtered_out |-> None]
       ELSE [panic |-> "",
             next |-> next1, last |-> end_version,
             batches |-> CarveBatches(r, filter, chunk_size),
             ticks |-> tick_now(<<>>, num_txns), include_calls |-> calls,
             filtered_out |-> num_filtered_txns]

(***************************************************************************)
(* get_next_transaction_batch: after the match.                            *)
(***************************************************************************)
\* IsEnd one version early: the cursor has reached the ending version.
IsEndAtEndingVersion(cfg, next) ==
    /\ cfg.request_ending_version # None
    /\ next >= cfg.request_ending_version

\* is_end: an ending version is configured and the cursor has passed it.
IsEnd(cfg, next) ==
    /\ cfg.request_ending_version # None
    /\ next > cfg.request_ending_version

\* EndOutput that stops without handing over the batches of this call.
EndOutputDropsBatches(batches) ==
    [transactions |-> <<>>, should_continue_fetching |-> FALSE]

\* The value returned when is_end holds.
EndOutput(batches) ==
    [transactions |-> batches, should_continue_fetching |-> FALSE]

\* The value returned otherwise.
ContinueOutput(batches) ==
    [transactions |-> batches, should_continue_fetching |-> TRUE]

\* A success arm that leaves the retry counter as it finds it.
RetriesKeptAfterBatch(retries) == retries

\* `self.reconnection_retries = 0`, the first statement of the success arm.
RetriesAfterBatch(retries) == 0

\* RetriesExhausted one retry late.
RetriesExhaustedLate(retries) == retries > RECONNECTION_MAX_RETRIES

\* reconnect_to_grpc gives up when the counter has reached the bound.
RetriesExhausted(retries) == retries >= RECONNECTION_MAX_RETRIES

\* NotSuccessCursor that skips the version the failed fetch was waiting for.
NotSuccessCursorSkips(next, last) == [next |-> next + 1, last |-> last + 1]

\* The cursor a not-success arm leaves: the arms only log.
NotSuccessCursor(next, last) == [next |-> next, last |-> last]

\* The batches a call holds when no raw batch was received:
\* transaction_pb_response as created, nothing pushed.
NewPbResponse == <<>>

\* The configuration reconnect_to_grpc hands to get_stream.
ReconnectConfig(cfg, next) == cfg

\* The panic a reconnection past the bound check ends in, "" when it puts
\* the new connection in place: get_stream's, or that of reading the
\* connection identifier off the response get_stream returned.
ReconnectPanic(net, header) ==
    IF GetStreamPanic(net) # "" THEN GetStreamPanic(net) ELSE ToStrPanic(header)

(***************************************************************************)
(* Actions.                                                                *)
(***************************************************************************)
\* One call of get_next_transaction_batch that polls a raw batch.  The
\* build is drawn with the call; it matters only to a batch whose span
\* underflows, so the other builds are drawn for such batches alone.
ReceiveBatch(item, build) ==
    LET arm == SuccessArm(item, last_fetched_version, next_version_to_fetch,
                          transaction_filter, pb_channel_txn_chunk_size,
                          build)
    IN /\ item.kind = "batch"
       /\ build # "release" =>
             /\ item.transactions # <<>>
             /\ SpanUnderflows(Head(item.transactions).version,
                               item.transactions[Len(item.transactions)].version)
       /\ response' = item
       /\ connections' = [connections EXCEPT !.polled = connections.stream]
       /\ reconnection_retries' = RetriesAfterBatch(reconnection_retries)
       /\ fetch_ma' = arm.ticks
       /\ include_calls' = arm.include_calls
       /\ filtered_out' = arm.filtered_out
       /\ next_version_to_fetch' = arm.next
       /\ last_fetched_version' = arm.last
       /\ panicked' = arm.panic
       /\ not_success_run' = 0
       /\ IF arm.panic # ""
          THEN /\ output' = <<>>
               /\ UNCHANGED accepted_end
          ELSE /\ output' =
                     IF IsEnd(transaction_stream_config, arm.next)
                     THEN <<EndOutput(arm.batches)>>
                     ELSE <<ContinueOutput(arm.batches)>>
               /\ accepted_end' = arm.last
       /\ UNCHANGED <<config_vars, resp_stream, connection_id>>

\* One call of get_next_transaction_batch whose poll is not a success: an
\* rpc error, the end of the stream or the per-item timeout; then
\* reconnect_to_grpc unless is_end.
ReceiveNotSuccess(item, net, header) ==
    LET cursor == NotSuccessCursor(next_version_to_fetch, last_fetched_version)
        reconnect_config == ReconnectConfig(transaction_stream_config, cursor.next)
        polled == [connections EXCEPT !.polled = connections.stream]
    IN /\ item.kind \in NotSuccessKinds
       /\ not_success_run < MaxNotSuccessRun
       /\ response' = item
       /\ not_success_run' = not_success_run + 1
       /\ next_version_to_fetch' = cursor.next
       /\ last_fetched_version' = cursor.last
       /\ fetch_ma' = <<>>
       /\ include_calls' = <<>>
       /\ filtered_out' = None
       /\ IF IsEnd(transaction_stream_config, cursor.next)
          THEN /\ output' = <<EndOutput(NewPbResponse)>>
               /\ connections' = polled
               /\ UNCHANGED <<reconnection_retries, resp_stream, panicked,
                              connection_id>>
          ELSE IF RetriesExhausted(reconnection_retries)
          THEN /\ panicked' = "[Parser] Reconnected more than 100 times. Will not retry."
               /\ output' = <<>>
               /\ connections' = polled
               /\ UNCHANGED <<reconnection_retries, resp_stream, connection_id>>
          ELSE /\ reconnection_retries' = reconnection_retries + 1
               /\ panicked' = ReconnectPanic(net, header)
               /\ IF ReconnectPanic(net, header) # ""
                  THEN /\ output' = <<>>
                       /\ connections' = polled
                       /\ UNCHANGED <<resp_stream, connection_id>>
                  ELSE /\ output' = <<ContinueOutput(NewPbResponse)>>
                       /\ resp_stream' =
                              ReconnectedStream(resp_stream,
                                                GetStream(reconnect_config))
                       /\ connection_id' = ConnectionId(header)
                       /\ connections' =
                              [stream |-> ReconnectedStream(connections.stream,
                                                            header),
                               opened |-> header,
                               polled |-> polled.polled]
       /\ UNCHANGED <<config_vars, accepted_end>>

\* get_next_transaction_batch on a running process, for whatever the stream
\* yields and whatever the network does to a reconnection; the server
\* answers a reconnection with one of the given connection headers.
Fetch(headers) ==
    /\ panicked = ""
    /\ \/ \E item \in BatchItems, build \in Builds : ReceiveBatch(item, build)
       \/ \E item \in NotSuccessItems, net \in Networks, header \in headers :
              ReceiveNotSuccess(item, net, header)
    /\ UNCHANGED <<connector_vars, sink_vars, event_vars, oneshot_vars>>

\* The calls against a server that sends no connection identifier.
get_next_transaction_batch == Fetch({NoHeader})

Next == get_next_transaction_batch

Spec == Init /\ [][Next]_vars

(***************************************************************************)
(* get_stream, attempt by attempt.                                         *)
(***************************************************************************)
\* A stream that is not followed: built with no ending version, nothing
\* fetched.
NoStream ==
    /\ transaction_stream_config =
           [starting_version |-> 0, request_ending_version |-> None]
    /\ transaction_filter = "all"
    /\ pb_channel_txn_chunk_size = 1
    /\ resp_stream = GetStream(transaction_stream_config)
    /\ next_version_to_fetch = 0
    /\ reconnection_retries = 0
    /\ last_fetched_version = -1
    /\ panicked = ""
    /\ response = NoResponse
    /\ output = <<>>
    /\ accepted_end = None
    /\ not_success_run = 0
    /\ NewMeter
    /\ InitStream(NoHeader)

\* The stream handle before get_stream has returned one.
NotOpened == [starting_version |-> None, transactions_count |-> None]

\* What one attempt bounded by the reconnection timeout yields: Ok(Ok(_))
\* "ok", Ok(Err(_)) "error", Err(elapsed) "timeout".
AttemptOutcomes == {"ok", "error", "timeout"}

\* The configurations get_stream can be handed: any u64 as starting
\* version, and an optional ending version not below it.
RequestConfigs ==
    {c \in [starting_version : 0..(Word - 1),
            request_ending_version : {None} \cup 0..(Word - 1)] :
        c.request_ending_version = None
        \/ c.starting_version <= c.request_ending_version}

\* get_stream is entered with a configuration; nothing is connected yet.
GetStreamInit ==
    /\ transaction_stream_config \in RequestConfigs
    /\ transaction_filter = "all"
    /\ pb_channel_txn_chunk_size = 1
    /\ resp_stream = NotOpened
    /\ next_version_to_fetch = transaction_stream_config.starting_version
    /\ reconnection_retries = 0
    /\ last_fetched_version = transaction_stream_config.starting_version - 1
    /\ panicked = ""
    /\ response = NoResponse
    /\ output = <<>>
    /\ accepted_end = None
    /\ not_success_run = 0
    /\ NewMeter
    /\ connection_id = "none"
    /\ connections = [stream |-> "none", opened |-> "none", polled |-> "none"]
    /\ get_stream_at = "connect"
    /\ connect_retries = 0
    /\ attempts = [connect |-> 0, request |-> 0]
    /\ last_attempt = "none"
    /\ NoSink

\* `connect_retries >= RECONNECTION_MAX_RETRIES` after the increment.
LoopGivesUp(retries) == retries >= RECONNECTION_MAX_RETRIES

\* One turn of the first loop: timeout(.., RawDataClient::connect(..)).  A
\* timeout counts a retry and gives up at the bound; any answer leaves the
\* loop, and an error answer panics in the match that follows.  After a
\* client is there the count of the request is computed; the build is drawn
\* where it matters, for a count whose arithmetic overflows: a build with
\* overflow checks panics there.
ConnectAttempt(outcome, build) ==
    /\ get_stream_at = "connect"
    /\ panicked = ""
    /\ build # "release" =>
          (outcome = "ok" /\ CountOverflows(transaction_stream_config))
    /\ attempts' = [attempts EXCEPT !.connect = @ + 1]
    /\ last_attempt' = outcome
    /\ CASE outcome = "timeout" ->
              /\ connect_retries' = connect_retries + 1
              /\ panicked' = IF LoopGivesUp(connect_retries + 1)
                             THEN "[Parser] Timeout connecting to GRPC server"
                             ELSE ""
              /\ UNCHANGED get_stream_at
         [] outcome = "error" ->
              /\ panicked' = "[Parser] Error connecting to GRPC client"
              /\ UNCHANGED <<connect_retries, get_stream_at>>
         [] outcome = "ok" /\ build # "release" ->
              /\ panicked' = "attempt to compute the count with overflow"
              /\ UNCHANGED <<connect_retries, get_stream_at>>
         [] outcome = "ok" /\ build = "release" ->
              /\ get_stream_at' = "request"
              /\ connect_retries' = 0
              /\ UNCHANGED panicked
    /\ UNCHANGED <<config_vars, resp_stream, next_version_to_fetch,
                   reconnection_retries, last_fetched_version, response,
                   output, accepted_end, not_success_run, meter_vars,
                   connection_vars, sink_vars, event_vars, oneshot_vars>>

\* One turn of the second loop: timeout(.., rpc_client.get_transactions(..)),
\* of the same shape; an "ok" answer is the stream get_stream returns.
RequestAttempt(outcome) ==
    /\ get_stream_at = "request"
    /\ panicked = ""
    /\ attempts' = [attempts EXCEPT !.request = @ + 1]
    /\ last_attempt' = outcome
    /\ CASE outcome = "timeout" ->
              /\ connect_retries' = connect_retries + 1
              /\ panicked' = IF LoopGivesUp(connect_retries + 1)
                             THEN "[Parser] Timed out making grpc request after max retries."
                             ELSE ""
              /\ UNCHANGED <<get_stream_at, resp_stream>>
         [] outcome = "error" ->
              /\ panicked' = "[Parser] Failed to get grpc response. Is the server running?"
              /\ UNCHANGED <<connect_retries, get_stream_at, resp_stream>>
         [] outcome = "ok" ->
              /\ get_stream_at' = "returned"
              /\ resp_stream' = GetStream(transaction_stream_config)
              /\ UNCHANGED <<connect_retries, panicked>>
    /\ UNCHANGED <<config_vars, next_version_to_fetch, reconnection_retries,
                   last_fetched_version, response, output, accepted_end,
                   not_success_run, meter_vars, connection_vars, sink_vars, event_vars, oneshot_vars>>

GetStreamNext ==
    \/ \E outcome \in AttemptOutcomes, build \in Builds :
           ConnectAttempt(outcome, build)
    \/ \E outcome \in AttemptOutcomes : RequestAttempt(outcome)

GetStreamSpec == GetStreamInit /\ [][GetStreamNext]_vars

(***************************************************************************)
(* DefaultTransactionProcessor::process_transactions, call after call.     *)
(***************************************************************************)
\* DefaultTransactionProcessor::new on a fresh storage.
SinkInit == NoStream /\ NoGetStreamCall /\ NoSink

\* One call: the row collections of the batch, insert_to_db, the result.
\* The faults are what the storage does to the first and to the second
\* atomic write.  While the caller holds the result of a call, the call
\* that follows is the same batch over again.
process_transactions(batch, fault1, fault2) ==
    LET rows == RowCollections(batch.transactions)
        tx_result == insert_to_db(db, rows, clock + 1, fault1, fault2)
    IN /\ clock < MaxCalls
       /\ call \in {NoCall, batch}
       /\ clock' = clock + 1
       /\ call' = batch
       /\ db' = tx_result.db
       /\ writes' = tx_result.writes
       /\ result' = ProcessingResult(tx_result.ok, batch.start_version,
                                     batch.end_version)
       /\ UNCHANGED <<stream_vars, connector_vars, event_vars, oneshot_vars, tasks>>

\* The caller is done with the result of the last call.
TakeResult ==
    /\ call # NoCall
    /\ call' = NoCall
    /\ writes' = <<>>
    /\ result' = NoResult
    /\ UNCHANGED <<stream_vars, connector_vars, event_vars, oneshot_vars, db, clock, tasks>>

SinkNext ==
    \/ \E batch \in SinkBatches, fault1 \in Faults, fault2 \in Faults :
           process_transactions(batch, fault1, fault2)
    \/ TakeResult

SinkSpec == SinkInit /\ [][SinkNext]_vars

(***************************************************************************)
(* TestContext::run: one permutation of a batch, a task per transaction.   *)
(* The body of a task is the call the source keeps as a comment in the     *)
(* spawned block: process_transactions(vec![txn], txn.version,             *)
(* txn.version); as the source stands the block returns Ok(()) and writes   *)
(* nothing.                                                                *)
(***************************************************************************)
\* The orders in which the transactions of a list can be taken.
OrdersOf(txns) ==
    {[i \in 1..Len(txns) |-> txns[p[i]]] :
        p \in {q \in [1..Len(txns) -> 1..Len(txns)] :
                  \A i, j \in 1..Len(txns) : q[i] = q[j] => i = j}}

\* The batches of a test case: runs of up to MaxTasks ledger transactions.
TestBatches ==
    {Run(first, n) :
        <<first, n>> \in {x \in Versions \X (1..MaxTasks) :
                             x[1] + x[2] - 1 <= MaxVersion}}

\* run has picked a batch and one permutation of it; no task is spawned.
TestRunInit ==
    /\ NoStream
    /\ NoGetStreamCall
    /\ db = EmptyDb
    /\ clock = 0
    /\ call = NoCall
    /\ writes = <<>>
    /\ result = NoResult
    /\ NoEvents
    /\ NoOneShots
    /\ \E batch \in TestBatches :
          \E perm \in OrdersOf(batch) :
              tasks = [unspawned |-> perm, spawned |-> <<>>]

\* tasks.push(tokio::spawn(..)) for the next transaction of the permutation.
Spawn ==
    /\ tasks.unspawned # <<>>
    /\ tasks' = [unspawned |-> Tail(tasks.unspawned),
                 spawned |-> Append(tasks.spawned,
                                    [txn |-> Head(tasks.unspawned),
                                     at |-> "spawned"])]
    /\ UNCHANGED <<stream_vars, connector_vars, event_vars, oneshot_vars, db, clock, call, writes, result>>

\* A spawned task runs process_transactions on its one transaction up to
\* the end of the first atomic write.
TaskFirstWrite(i, fault) ==
    LET txn == tasks.spawned[i].txn
        w == AtomicWrite(db, RowCollections(<<txn>>), clock + 1, fault)
    IN /\ tasks.spawned[i].at = "spawned"
       /\ db' = w.db
       /\ clock' = clock + 1
       /\ tasks' = [tasks EXCEPT !.spawned[i].at =
                        IF w.ok THEN "ok" ELSE "retry"]
       /\ UNCHANGED <<stream_vars, connector_vars, event_vars, oneshot_vars, call, writes, result>>

\* The task's second atomic write, on the cleaned rows, and its return.
TaskRetryWrite(i, fault) ==
    LET txn == tasks.spawned[i].txn
        w == AtomicWrite(db, CleanCollections(RowCollections(<<txn>>)),
                         clock + 1, fault)
    IN /\ tasks.spawned[i].at = "retry"
       /\ db' = w.db
       /\ clock' = clock + 1
       /\ tasks' = [tasks EXCEPT !.spawned[i].at =
                        IF w.ok THEN "ok" ELSE "err"]
       /\ UNCHANGED <<stream_vars, connector_vars, event_vars, oneshot_vars, call, writes, result>>

TestRunNext ==
    \/ Spawn
    \/ \E i \in 1..Len(tasks.spawned), fault \in Faults : TaskFirstWrite(i, fault)
    \/ \E i \in 1..Len(tasks.spawned), fault \in Faults : TaskRetryWrite(i, fault)

TestRunSpec == TestRunInit /\ [][TestRunNext]_vars

(***************************************************************************)
(* The stream against an upstream that keeps the protocol: every fetch is  *)
(* answered with the next run of the ledger.                               *)
(***************************************************************************)
\* The raw batches such an upstream can send next: a non-empty run of the
\* ledger that starts at the cursor, with a chain id.
NextBatches(next) ==
    {[kind |-> "batch", transactions |-> Run(next, n), chain_id |-> c] :
        <<n, c>> \in {x \in (1..MaxBatchLen) \X (ChainIds \ {None}) :
                         next + x[1] - 1 <= MaxVersion}}

\* A stream built with an ending version.
OrderlyInit ==
    /\ Init
    /\ transaction_stream_config.request_ending_version # None

\* get_next_transaction_batch, called again and again by the driver loop.
FetchNextBatch ==
    /\ panicked = ""
    /\ \E item \in NextBatches(next_version_to_fetch), build \in Builds :
           ReceiveBatch(item, build)
    /\ UNCHANGED <<connector_vars, sink_vars, event_vars, oneshot_vars>>

\* The driver goes on calling and the upstream goes on answering while the
\* ledger has a next version.
OrderlySpec ==
    OrderlyInit /\ [][FetchNextBatch]_vars /\ WF_vars(FetchNextBatch)

(***************************************************************************)
(* The stream against a server that names its connections.                 *)
(***************************************************************************)
\* One stream from version 0; its first connection carries no identifier.
NamedInit ==
    /\ transaction_stream_config \in
           {c \in Configs : c.starting_version = 0
                               /\ c.request_ending_version \in {None, 1}}
    /\ transaction_filter = "all"
    /\ pb_channel_txn_chunk_size = 1
    /\ resp_stream = GetStream(transaction_stream_config)
    /\ next_version_to_fetch = transaction_stream_config.starting_version
    /\ reconnection_retries = 0
    /\ last_fetched_version = transaction_stream_config.starting_version - 1
    /\ panicked = ""
    /\ response = NoResponse
    /\ output = <<>>
    /\ accepted_end = None
    /\ not_success_run = 0
    /\ NewMeter
    /\ InitStream(NoHeader)
    /\ NoGetStreamCall
    /\ NoSink

NamedNext == Fetch(ConnectionHeaders)

NamedSpec == NamedInit /\ [][NamedNext]_vars

(***************************************************************************)
(* should_skip on one pair of events.                                      *)
(***************************************************************************)
SkipInit ==
    /\ NoStream
    /\ NoGetStreamCall
    /\ db = EmptyDb
    /\ clock = 0
    /\ call = NoCall
    /\ writes = <<>>
    /\ result = NoResult
    /\ tasks = NoTasks
    /\ NoOneShots
    /\ event \in Events
    /\ prev_event \in OptionalEvents
    /\ skip = <<>>

ShouldSkip ==
    /\ skip = <<>>
    /\ skip' = <<should_skip(event, prev_event)>>
    /\ UNCHANGED <<stream_vars, connector_vars, sink_vars, event, prev_event, oneshot_vars>>

SkipNext == ShouldSkip

SkipSpec == SkipInit /\ [][SkipNext]_vars

(***************************************************************************)
(* get_chain_id, next to a stream in its steady state.                     *)
(***************************************************************************)
\* A chain-id request for the range the stream is configured with.
ChainIdConfigAsConfigured(cfg) == cfg

\* transaction_stream_config_for_chain_id: starting_version 1 and
\* request_ending_version Some(2), the rest as configured.
ChainIdConfig(cfg) ==
    [cfg EXCEPT !.starting_version = 1, !.request_ending_version = 2]

\* What resp_stream.next() can yield, awaited under no timeout: Some(Ok(r)),
\* Some(Err(_)) or None.  Of the responses, those without transactions and
\* those with the two transactions asked for are drawn.
FirstItems ==
    {i \in BatchItems : i.transactions \in {<<>>, Run(1, 2)}}
        \cup {i \in NotSuccessItems : i.kind \in {"rpc_error", "stream_end"}}

\* What the network and the server do to one call: the header is drawn for
\* a call the connector answers, the first item for a call that gets to
\* poll its stream.
ChainIdInputs ==
    {x \in Networks \X ConnectionHeaders \X FirstItems :
        /\ GetStreamPanic(x[1]) # "" => x[2] = NoHeader
        /\ ReconnectPanic(x[1], x[2]) # "" => x[3].kind = "stream_end"}

\* The match on the first item: the chain id returned, or the panic.
FirstItemMatch(item) ==
    CASE item.kind = "batch" ->
            [panic |-> IF item.chain_id = None
                       THEN "[Parser] Chain Id doesn't exist."
                       ELSE "",
             chain_id |-> item.chain_id]
      [] item.kind = "rpc_error" ->
            [panic |-> "[Parser] Error receiving datastream response for chain id",
             chain_id |-> None]
      [] item.kind = "stream_end" ->
            [panic |-> "[Parser] Stream ended before getting response fo for chain id",
             chain_id |-> None]

\* get_chain_id(transaction_stream_config, processor_name) from its first
\* statement to its return or its panic: the range is overridden, get_stream
\* opens a connection of its own, the connection identifier is read off the
\* response, and the first item of the new stream is matched.  `moved`
\* tells whether the call is TransactionStream::get_chain_id(self), which
\* takes the stream by value.
ChainIdCall(cfg, net, header, item, moved) ==
    LET request == GetStream(ChainIdConfig(cfg))
        matched == FirstItemMatch(item)
        unopened == [NoChainIdCall EXCEPT !.at = "aborted", !.moved = moved]
        opened == [unopened EXCEPT !.request = request]
    IN IF ReconnectPanic(net, header) # ""
       THEN [panic |-> ReconnectPanic(net, header),
             call |-> IF GetStreamPanic(net) # "" THEN unopened ELSE opened]
       ELSE [panic |-> matched.panic,
             call |-> [at |-> IF matched.panic = "" THEN "returned" ELSE "aborted",
                       request |-> request,
                       first |-> [kind |-> item.kind, chain_id |-> item.chain_id],
                       chain_id |-> matched.chain_id,
                       moved |-> moved]]

\* The free function, called with the configuration the stream was built
\* with while the stream is in use.
get_chain_id(net, header, item) ==
    LET c == ChainIdCall(transaction_stream_config, net, header, item, FALSE)
    IN /\ panicked = ""
       /\ ~chain_id_call.moved
       /\ chain_id_call' = c.call
       /\ panicked' = c.panic
       /\ UNCHANGED <<config_vars, resp_stream, next_version_to_fetch,
                      reconnection_retries, last_fetched_version, response,
                      output, accepted_end, not_success_run, meter_vars,
                      connection_vars, connector_vars, sink_vars, event_vars,
                      runs, grouping, construction, event_stream>>

\* TransactionStream::get_chain_id(self): the stream is moved into the call,
\* which hands its configuration to the free function; its connection is
\* dropped unread.
StreamGetChainId(net, header, item) ==
    LET c == ChainIdCall(transaction_stream_config, net, header, item, TRUE)
    IN /\ panicked = ""
       /\ ~chain_id_call.moved
       /\ chain_id_call' = c.call
       /\ panicked' = c.panic
       /\ UNCHANGED <<config_vars, resp_stream, next_version_to_fetch,
                      reconnection_retries, last_fetched_version, response,
                      output, accepted_end, not_success_run, meter_vars,
                      connection_vars, connector_vars, sink_vars, event_vars,
                      runs, grouping, construction, event_stream>>

\* get_next_transaction_batch on the stream while no call has taken it,
\* against an upstream that keeps the protocol.
SteadyFetch ==
    /\ ~chain_id_call.moved
    /\ panicked = ""
    /\ \E item \in NextBatches(next_version_to_fetch), build \in Builds :
           ReceiveBatch(item, build)
    /\ UNCHANGED <<connector_vars, sink_vars, event_vars, oneshot_vars>>

ChainIdNext ==
    \/ SteadyFetch
    \/ \E x \in ChainIdInputs : get_chain_id(x[1], x[2], x[3])
    \/ \E x \in ChainIdInputs : StreamGetChainId(x[1], x[2], x[3])

\* A stream of any configured range, built with the filter that includes
\* everything and the smallest chunk threshold.
ChainIdInit ==
    /\ Init
    /\ transaction_filter = "all"
    /\ pb_channel_txn_chunk_size = 1

ChainIdSpec == ChainIdInit /\ [][ChainIdNext]_vars

(***************************************************************************)
(* process_transactions of DefaultTransactionProcessor: the loop over the  *)
(* write set change details and the sort that follows it.                  *)
(***************************************************************************)
\* Most write set change details of one call.
MaxDetails == 3

\* The details from_transactions can hand over: a module, a resource, a
\* table item without metadata, and a table item with the metadata of its
\* table; handles are numbered in the order of their strings, and the
\* metadata of one handle comes with one of two key types.
WriteSetChangeDetails ==
    {[tag |-> "Module", row |-> Row(0, "plain", "bytecode"), extra |-> <<>>],
     [tag |-> "Resource", row |-> Row(0, "plain", "data"), extra |-> <<>>],
     [tag |-> "Table", row |-> Row(0, "plain", "decoded_value"), extra |-> <<>>]}
    \cup
    {[tag |-> "Table", row |-> Row(0, "plain", "decoded_value"),
      extra |-> <<Row(handle, "plain", key_type)>>] :
        handle \in 1..2, key_type \in {"u64", "address"}}

\* The lists of at most n details.
DetailLists(n) ==
    UNION {[1..k -> WriteSetChangeDetails] : k \in 0..n}

\* `for detail in wsc_details { .. }`, into_values().collect() and sort_by
\* on the handle.
GroupDetails ==
    /\ grouping.at = "called"
    /\ grouping' =
          [grouping EXCEPT
              !.at = "grouped",
              !.table_metadata =
                  TableMetadata(ExtraTagged(grouping.wsc_details, "Table"))]
    /\ UNCHANGED <<stream_vars, connector_vars, sink_vars, event_vars,
                   chain_id_call, runs, construction, event_stream>>

\* process_transactions has been handed transactions with these details.
GroupingInit ==
    /\ NoStream
    /\ NoGetStreamCall
    /\ db = EmptyDb
    /\ clock = 0
    /\ call = NoCall
    /\ writes = <<>>
    /\ result = NoResult
    /\ tasks = NoTasks
    /\ NoEvents
    /\ chain_id_call = NoChainIdCall
    /\ runs = NoRuns
    /\ construction = Constructed
    /\ event_stream = NoProcessing
    /\ \E details \in DetailLists(MaxDetails) :
          grouping = [NoGrouping EXCEPT !.at = "called",
                                        !.wsc_details = details]

GroupingSpec == GroupingInit /\ [][GroupDetails]_vars

(***************************************************************************)
(* EventStreamProcessor::process_transactions                              *)
(* (rust/processor/src/processors/event_stream_processor.rs), statement    *)
(* by statement: the loop that transforms, the loop that inserts, the      *)
(* result.                                                                 *)
(***************************************************************************)
\* A second loop that starts as soon as one transaction is transformed.
InsertsStartAtOnce(batch, transactions) == Len(batch) >= 1

\* `for events in batch` comes after `for txn in &transactions` has ended:
\* every transaction has its entry in batch.
InsertsMayStart(batch, transactions) == Len(batch) = Len(transactions)

\* One turn of `for txn in &transactions`: the transaction after those
\* already transformed.  txn.timestamp.as_ref().unwrap() panics on a
\* transaction without timestamp; otherwise the CachedEvents of the
\* transaction is pushed to batch.
Transform ==
    LET txn == event_stream.transactions[Len(event_stream.batch) + 1]
    IN /\ event_stream.at = "running"
       /\ Len(event_stream.batch) < Len(event_stream.transactions)
       /\ event_stream' =
             IF txn.timestamp = None
             THEN [event_stream EXCEPT
                      !.at = "aborted",
                      !.panic = "called Option::unwrap() on a None value"]
             ELSE [event_stream EXCEPT
                      !.batch = Append(@, [transaction_version |-> txn.version,
                                           txn_timestamp |-> txn.timestamp])]
       /\ UNCHANGED <<stream_vars, connector_vars, sink_vars, event_vars,
                      chain_id_call, runs, grouping, construction>>

\* One turn of `for events in batch`:
\* self.cache.insert(events.transaction_version, events.clone()).
InsertCached ==
    LET events == event_stream.batch[Len(event_stream.cache) + 1]
    IN /\ event_stream.at = "running"
       /\ InsertsMayStart(event_stream.batch, event_stream.transactions)
       /\ Len(event_stream.cache) < Len(event_stream.batch)
       /\ event_stream' =
             [event_stream EXCEPT
                 !.cache = Append(@, [key |-> events.transaction_version,
                                      value |-> events])]
       /\ UNCHANGED <<stream_vars, connector_vars, sink_vars, event_vars,
                      chain_id_call, runs, grouping, construction>>

\* The result, after both loops: transactions.last().unwrap() panics on an
\* empty list; otherwise Ok(DefaultProcessingResult { start_version,
\* end_version, last_transaction_timestamp, .. }).
ReturnResult ==
    LET transactions == event_stream.transactions
    IN /\ event_stream.at = "running"
       /\ Len(event_stream.batch) = Len(transactions)
       /\ Len(event_stream.cache) = Len(event_stream.batch)
       /\ event_stream' =
             IF transactions = <<>>
             THEN [event_stream EXCEPT
                      !.at = "aborted",
                      !.panic = "called Option::unwrap() on a None value"]
             ELSE [event_stream EXCEPT
                      !.at = "returned",
                      !.result =
                          <<[start_version |-> event_stream.start_version,
                             end_version |-> event_stream.end_version,
                             last_transaction_timestamp |->
                                 transactions[Len(transactions)].timestamp]>>]
       /\ UNCHANGED <<stream_vars, connector_vars, sink_vars, event_vars,
                      chain_id_call, runs, grouping, construction>>

\* process_transactions is called with an output batch of the stream: what
\* a filter leaves of a raw batch, under the span of the raw batch.
EventStreamInit ==
    /\ NoStream
    /\ NoGetStreamCall
    /\ db = EmptyDb
    /\ clock = 0
    /\ call = NoCall
    /\ writes = <<>>
    /\ result = NoResult
    /\ tasks = NoTasks
    /\ NoEvents
    /\ chain_id_call = NoChainIdCall
    /\ runs = NoRuns
    /\ grouping = NoGrouping
    /\ construction = Constructed
    /\ \E raw \in RawTransactionLists \ {<<>>}, filter \in Filters :
          event_stream =
              [NoProcessing EXCEPT
                  !.at = "running",
                  !.transactions = Retain(raw, filter),
                  !.start_version = raw[1].version,
                  !.end_version = raw[Len(raw)].version]

EventStreamNext == Transform \/ InsertCached \/ ReturnResult

EventStreamSpec == EventStreamInit /\ [][EventStreamNext]_vars

(***************************************************************************)
(* TransactionStream::new, then the calls on the stream it returns.        *)
(***************************************************************************)
\* The configurations new can be handed: any u64 as starting version,
\* with no ending version or with the starting version as the ending one.
ConstructConfigs ==
    {c \in RequestConfigs :
        c.request_ending_version \in {None, c.starting_version}}

\* `starting_version as i64 - 1`: whether the subtraction leaves the i64
\* range (a build with overflow checks panics there), and the value a
\* build without them goes on with.
InitialLastFetched(cfg) ==
    LET difference == AsI64(cfg.starting_version) - 1
    IN [overflows |-> I64Overflows(difference), value |-> AsI64(difference)]

\* How new ends on a network, a connection header and a build: the panic
\* ("" when it returns the stream) and the calls of get_stream made.  The
\* struct is filled first, then init_stream calls get_stream, where the
\* count is computed between connecting and requesting, and reads the
\* connection identifier.
NewOutcome(cfg, net, header, build) ==
    IF build # "release" /\ InitialLastFetched(cfg).overflows
    THEN [panic |-> "attempt to subtract with overflow", get_stream_calls |-> 0]
    ELSE IF net.connect_timeouts >= RECONNECTION_MAX_RETRIES \/ net.connect = "error"
    THEN [panic |-> GetStreamPanic(net), get_stream_calls |-> 1]
    ELSE IF build # "release" /\ CountOverflows(cfg)
    THEN [panic |-> "attempt to compute the count with overflow",
          get_stream_calls |-> 1]
    ELSE [panic |-> ReconnectPanic(net, header), get_stream_calls |-> 1]

\* TransactionStream::new from its first statement to its return or panic.
New(net, header, build) ==
    LET cfg == transaction_stream_config
        outcome == NewOutcome(cfg, net, header, build)
    IN /\ construction.at = "unbuilt"
       /\ build # "release" =>
             (InitialLastFetched(cfg).overflows \/ CountOverflows(cfg))
       /\ GetStreamPanic(net) # "" => header = NoHeader
       /\ panicked' = outcome.panic
       /\ construction' =
             [at |-> IF outcome.panic = "" THEN "built" ELSE "aborted",
              get_stream_calls |-> outcome.get_stream_calls]
       /\ IF outcome.panic = ""
          THEN /\ next_version_to_fetch' = cfg.starting_version
               /\ reconnection_retries' = 0
               /\ last_fetched_version' = InitialLastFetched(cfg).value
               /\ resp_stream' = GetStream(cfg)
               /\ connection_id' = ConnectionId(header)
               /\ connections' = Connected(header)
          ELSE UNCHANGED <<next_version_to_fetch, reconnection_retries,
                           last_fetched_version, resp_stream, connection_vars>>
       /\ UNCHANGED <<config_vars, response, output, accepted_end,
                      not_success_run, meter_vars, connector_vars, sink_vars,
                      event_vars, chain_id_call, runs, grouping, event_stream>>

\* get_next_transaction_batch on the stream new returned: the poll needs
\* resp_stream to be there.  A raw batch is drawn where
\* `last_fetched_version + 1` stays in the i64 range.
FetchBuilt ==
    /\ construction.at = "built"
    /\ panicked = ""
    /\ IF resp_stream = NotOpened
       THEN /\ panicked' =
                  "[Parser] GRPC stream is not initialized. Did you call init_stream?"
            /\ UNCHANGED <<config_vars, resp_stream, next_version_to_fetch,
                           reconnection_retries, last_fetched_version, response,
                           output, accepted_end, not_success_run, meter_vars,
                           connection_vars>>
       ELSE \/ /\ ~I64Overflows(last_fetched_version + 1)
               /\ \E item \in BatchItems : ReceiveBatch(item, "release")
            \/ \E item \in NotSuccessItems, net \in Networks :
                   ReceiveNotSuccess(item, net, NoHeader)
    /\ UNCHANGED <<connector_vars, sink_vars, event_vars, oneshot_vars>>

\* new is entered: no field of the stream is set.
ConstructInit ==
    /\ transaction_stream_config \in ConstructConfigs
    /\ transaction_filter = "all"
    /\ pb_channel_txn_chunk_size = 1
    /\ resp_stream = NotOpened
    /\ next_version_to_fetch = 0
    /\ reconnection_retries = 0
    /\ last_fetched_version = 0
    /\ panicked = ""
    /\ response = NoResponse
    /\ output = <<>>
    /\ accepted_end = None
    /\ not_success_run = 0
    /\ NewMeter
    /\ connection_id = "none"
    /\ connections = [stream |-> "none", opened |-> "none", polled |-> "none"]
    /\ NoGetStreamCall
    /\ db = EmptyDb
    /\ clock = 0
    /\ call = NoCall
    /\ writes = <<>>
    /\ result = NoResult
    /\ tasks = NoTasks
    /\ NoEvents
    /\ chain_id_call = NoChainIdCall
    /\ runs = NoRuns
    /\ grouping = NoGrouping
    /\ event_stream = NoProcessing
    /\ construction = [at |-> "unbuilt", get_stream_calls |-> 0]

ConstructNext ==
    \/ \E net \in Networks, header \in ConnectionHeaders, build \in Builds :
           New(net, header, build)
    \/ FetchBuilt

ConstructSpec == ConstructInit /\ [][ConstructNext]_vars

(***************************************************************************)
(* Two runs of one stream: the same configuration, the same items polled   *)
(* and the same network, under connection identifiers of the server's      *)
(* choice.  The second run is made after the first on a stream built anew. *)
(***************************************************************************)
\* Longest run that is made twice.
MaxRunLen == 3

\* What a caller sees of a call: what it returned, the cursor, and the
\* panic the process ended in.
Observed ==
    [output |-> output,
     next_version_to_fetch |-> next_version_to_fetch,
     last_fetched_version |-> last_fetched_version,
     panicked |-> panicked]

\* What one call is given in both runs: the item polled and, for a
\* reconnection, what the network does to the connector: it answers at
\* once, or it refuses the connection.
RunInputs ==
    {[item |-> i, net |-> n] :
        <<i, n>> \in {x \in (BatchItems \cup NotSuccessItems) \X Networks :
                        /\ x[2].connect_timeouts = 0
                        /\ x[2].request_timeouts = 0
                        /\ x[2].request = "ok"
                        /\ x[1].kind = "batch" =>
                              /\ x[2].connect = "ok"
                              /\ x[1].chain_id = 1
                              /\ x[1].transactions \in
                                     {Run(0, 1), Run(1, 1), Run(0, 2), Run(1, 2)}}}

\* One call of get_next_transaction_batch on the given input, the
\* reconnection answered with the given header.
RunStep(input, header) ==
    /\ panicked = ""
    /\ \/ ReceiveBatch(input.item, "release")
       \/ ReceiveNotSuccess(input.item, input.net, header)
    /\ UNCHANGED <<connector_vars, sink_vars, event_vars, chain_id_call,
                   grouping, construction, event_stream>>

\* A call of the first run: the input and what the caller sees are kept.
FirstRunFetch ==
    /\ runs.phase = "first"
    /\ Len(runs.inputs) < MaxRunLen
    /\ \E input \in RunInputs, header \in ConnectionHeaders :
          /\ RunStep(input, header)
          /\ runs' = [runs EXCEPT !.inputs = Append(@, input),
                                   !.trace = Append(@, Observed')]

\* TransactionStream::new once more with the same configuration, filter and
\* chunk size, for the second run.
SecondRunNew ==
    /\ runs.phase = "first"
    /\ runs.inputs # <<>>
    /\ runs' = [runs EXCEPT !.phase = "second"]
    /\ resp_stream' = GetStream(transaction_stream_config)
    /\ next_version_to_fetch' = transaction_stream_config.starting_version
    /\ reconnection_retries' = 0
    /\ last_fetched_version' = transaction_stream_config.starting_version - 1
    /\ panicked' = ""
    /\ response' = NoResponse
    /\ output' = <<>>
    /\ accepted_end' = None
    /\ not_success_run' = 0
    /\ fetch_ma' = <<>>
    /\ include_calls' = <<>>
    /\ filtered_out' = None
    /\ connection_id' = ConnectionId(NoHeader)
    /\ connections' = Connected(NoHeader)
    /\ UNCHANGED <<config_vars, connector_vars, sink_vars, event_vars,
                   chain_id_call, grouping, construction, event_stream>>

\* A call of the second run: the input of the first run at the same
\* position, the reconnection answered with a header of its own.
SecondRunFetch ==
    /\ runs.phase = "second"
    /\ runs.pos < Len(runs.inputs)
    /\ \E header \in ConnectionHeaders :
          RunStep(runs.inputs[runs.pos + 1], header)
    /\ runs' = [runs EXCEPT !.pos = @ + 1]

TwoRunsNext == FirstRunFetch \/ SecondRunNew \/ SecondRunFetch

\* Both runs are those of a stream from version 0.
TwoRunsSpec == NamedInit /\ [][TwoRunsNext]_vars

(***************************************************************************)
(* Definitions the properties share.                                       *)
(***************************************************************************)
Returned == output # <<>>

Out == output[1]

\* The last call polled a raw batch and returned.
SuccessReturned == panicked = "" /\ response.kind = "batch" /\ Returned

\* The last call polled no raw batch.
NotSuccess == response.kind \in NotSuccessKinds

FirstVersion(r) == Head(r.transactions).version

LastVersion(r) == r.transactions[Len(r.transactions)].version

RECURSIVE Flatten(_)
\* The transactions of a list of output batches, in emission order.
Flatten(batches) ==
    IF batches = <<>> THEN <<>>
    ELSE Head(batches).transactions \o Flatten(Tail(batches))

\* The transactions of the polled raw batch that the filter includes.
Included == SelectSeq(response.transactions,
                      LAMBDA t : Include(transaction_filter, t))

Ending == transaction_stream_config.request_ending_version

PastEnding == Ending # None /\ next_version_to_fetch > Ending

GetStreamPanics ==
    {"[Parser] Timeout connecting to GRPC server",
     "[Parser] Error connecting to GRPC client",
     "[Parser] Timed out making grpc request after max retries.",
     "[Parser] Failed to get grpc response. Is the server running?"}

(***************************************************************************)
(* C1.  Contiguity of accepted batches.                                    *)
(***************************************************************************)
\* C1: every step in which a non-empty raw batch is polled either accepts it,
\* and then the batch starts at the end_version of the previously accepted
\* batch plus one (at starting_version when none was accepted before), or
\* aborts the process without returning anything; a batch that starts
\* anywhere else always aborts.
C1_Contiguity ==
    [][(response'.kind = "batch" /\ response'.transactions # <<>>) =>
          LET expected == IF accepted_end = None
                          THEN transaction_stream_config.starting_version
                          ELSE accepted_end + 1
          IN /\ panicked' = "" =>
                   /\ FirstVersion(response') = expected
                   /\ accepted_end' = LastVersion(response')
             /\ FirstVersion(response') # expected =>
                   /\ panicked' # ""
                   /\ output' = <<>>
                   /\ accepted_end' = accepted_end]_vars

\* A batch accepted after an earlier accepted batch.
C1_Witness ==
    /\ SuccessReturned
    /\ FirstVersion(response) # transaction_stream_config.starting_version
    /\ accepted_end = LastVersion(response)

(***************************************************************************)
(* C2.  Reconnect resumes at next_version_to_fetch.                        *)
(***************************************************************************)
\* C2: after a reconnection that follows at least one accepted batch, the
\* open stream answers a request whose starting version is the current
\* next_version_to_fetch.
C2_ReconnectResumesAtCursor ==
    (panicked = "" /\ reconnection_retries > 0 /\ accepted_end # None) =>
        resp_stream.starting_version = next_version_to_fetch

(***************************************************************************)
(* C3.  Strict version order without gaps, transaction by transaction.     *)
(***************************************************************************)
\* C3: with the filter that includes every transaction, the transactions a
\* successful call returns are the consecutive versions from the cursor the
\* call started at up to the version before the cursor it leaves (so that
\* the calls' outputs, one after the other, count up from starting_version).
C3_ConsecutiveVersions ==
    (SuccessReturned /\ transaction_filter = "all") =>
        LET d == Flatten(Out.transactions)
        IN /\ Len(d) = next_version_to_fetch - FirstVersion(response)
           /\ \A i \in 1..Len(d) : d[i].version = FirstVersion(response) + i - 1

C5_StopDeliversBatches ==
    (SuccessReturned /\ PastEnding) =>
        /\ Out.should_continue_fetching = FALSE
        /\ Len(Out.transactions) >= 1
        /\ Flatten(Out.transactions) = Included
        /\ \A i \in 1..Len(Out.transactions) :
              /\ Out.transactions[i].start_version = FirstVersion(response)
              /\ Out.transactions[i].end_version = LastVersion(response)

\* starting_version = 1, ending version = 2, the raw batch [1..2]: exactly
\* one output batch with span [1, 2], and "stop".
C5_Witness ==
    /\ SuccessReturned
    /\ transaction_stream_config = [starting_version |-> 1, request_ending_version |-> 2]
    /\ response.transactions = Run(1, 2)
    /\ Len(Out.transactions) = 1
    /\ Out.transactions[1].transactions = Run(1, 2)
    /\ Out.transactions[1].start_version = 1
    /\ Out.transactions[1].end_version = 2
    /\ Out.should_continue_fetching = FALSE

C7_DocumentedReturn ==
    Returned =>
        (Out.should_continue_fetching = FALSE
            <=> response.kind \in {"stream_end", "rpc_error"})

(***************************************************************************)
(* C8.  A not-success fetch emits nothing and leaves the cursor.           *)
(***************************************************************************)
\* C8: a call that polls an rpc error, the end of the stream or a timeout
\* leaves next_version_to_fetch and last_fetched_version as they were and,
\* when it returns, returns no output batch.
C8_NotSuccessFrame ==
    [][(response'.kind \in NotSuccessKinds) =>
          /\ next_version_to_fetch' = next_version_to_fetch
          /\ last_fetched_version' = last_fetched_version
          /\ output' # <<>> => output'[1].transactions = <<>>]_vars

\* A not-success fetch that returned after a batch had been accepted.
C8_Witness ==
    /\ NotSuccess
    /\ Returned
    /\ accepted_end # None
    /\ Out.transactions = <<>>
    /\ next_version_to_fetch = accepted_end + 1

(***************************************************************************)
(* C9.  Chunking.                                                          *)
(***************************************************************************)
\* C9: when the number n of included transactions is at least the chunk
\* threshold c, a successful call returns ceil(n / c) batches, each of at
\* most c transactions, all but the last of exactly c, whose transactions
\* in emission order are the included transactions in their order.
C9_Chunking ==
    LET n == Len(Included)
        c == pb_channel_txn_chunk_size
        b == Out.transactions
    IN (SuccessReturned /\ n >= c) =>
          /\ Len(b) = (n + c - 1) \div c
          /\ \A i \in 1..Len(b) :
                /\ Len(b[i].transactions) <= c
                /\ Len(b[i].transactions) >= 1
                /\ i < Len(b) => Len(b[i].transactions) = c
          /\ Flatten(b) = Included

\* Threshold 2 and three included transactions: chunks of 2 and 1.
C9_Witness ==
    /\ SuccessReturned
    /\ pb_channel_txn_chunk_size = 2
    /\ Len(Included) = 3
    /\ Len(Out.transactions) = 2
    /\ Len(Out.transactions[1].transactions) = 2
    /\ Len(Out.transactions[2].transactions) = 1

(***************************************************************************)
(* C10.  Span preservation.                                                *)
(***************************************************************************)
\* C10: every output batch of a successful call carries the start and end
\* version, the start and end timestamp and the chain id of the raw batch
\* (its first and last transaction before the filter ran), whether it is the
\* only batch or a chunk.
C10_SpanPreservation ==
    SuccessReturned =>
        \A i \in 1..Len(Out.transactions) :
            LET b == Out.transactions[i]
                raw == response.transactions
            IN /\ b.start_version = raw[1].version
               /\ b.end_version = raw[Len(raw)].version
               /\ b.start_txn_timestamp = raw[1].timestamp
               /\ b.end_txn_timestamp = raw[Len(raw)].timestamp
               /\ b.chain_id = response.chain_id

\* Several chunks of a raw batch from which the filter removed a
\* transaction: a chunk whose own transactions span less than the span it
\* reports.
C10_Witness ==
    /\ SuccessReturned
    /\ Len(Out.transactions) >= 2
    /\ Len(Included) < Len(response.transactions)
    /\ \E i \in 1..Len(Out.transactions) :
          LET b == Out.transactions[i]
          IN /\ b.transactions[1].version # b.start_version
             /\ b.transactions[Len(b.transactions)].version = b.end_version

(***************************************************************************)
(* C11.  Byte-size proportionality.                                        *)
(***************************************************************************)
\* C11: in the chunked path (the included transactions are at least the
\* chunk threshold) every output batch reports as size_in_bytes the encoded
\* length of the raw batch divided (integer division) by the number of
\* transactions the raw batch had before the filter ran, times the number of
\* transactions of the chunk.
C11_ByteSizeProportionality ==
    (SuccessReturned /\ Len(Included) >= pb_channel_txn_chunk_size) =>
        \A i \in 1..Len(Out.transactions) :
            Out.transactions[i].size_in_bytes =
                (EncodedLen(response) \div Len(response.transactions))
                    * Len(Out.transactions[i].transactions)

\* Several chunks of a raw batch from which the filter removed a
\* transaction and whose encoded length is no multiple of its transaction
\* count: the division rounds and the divisor is not the filtered count.
C11_Witness ==
    /\ SuccessReturned
    /\ Len(Included) >= pb_channel_txn_chunk_size
    /\ Len(Out.transactions) >= 2
    /\ Len(Included) < Len(response.transactions)
    /\ EncodedLen(response) % Len(response.transactions) # 0
    /\ EncodedLen(response) \div Len(response.transactions)
           # EncodedLen(response) \div Len(Included)

(***************************************************************************)
(* C12.  Filter idempotence.                                               *)
(***************************************************************************)
\* C12: the filter step applied to the list it produced returns that list:
\* for the raw batch of a successful call, and for the transactions of
\* every output batch the call returns.
C12_FilterIdempotence ==
    SuccessReturned =>
        LET filtered == Retain(response.transactions, transaction_filter)
        IN /\ Retain(filtered, transaction_filter) = filtered
           /\ Flatten(Out.transactions) = filtered
           /\ \A i \in 1..Len(Out.transactions) :
                 Retain(Out.transactions[i].transactions, transaction_filter)
                     = Out.transactions[i].transactions

\* A raw batch of which the filter keeps some transactions and removes
\* others, among them the first.
C12_Witness ==
    /\ SuccessReturned
    /\ Len(Included) >= 1
    /\ Len(Included) < Len(response.transactions)
    /\ ~Include(transaction_filter, Head(response.transactions))
    /\ Flatten(Out.transactions) = Included

(***************************************************************************)
(* Definitions the properties of the processor share.                      *)
(***************************************************************************)
\* The last step was a call of process_transactions whose result is held.
Called == call # NoCall

\* The row collections derived from the batch of the last call.
CallRows == RowCollections(call.transactions)

LastWrite == writes[Len(writes)]

\* The rows of a storage, without the time they were inserted at.
Contents(d) == [c \in Collections |-> {s.row : s \in d[c]}]

(***************************************************************************)
(* C13.  Sanitize and retry exactly once.                                  *)
(***************************************************************************)
\* C13: a call runs the atomic write once or twice; the first write runs on
\* the rows as derived; there is a second write exactly when the first
\* failed, and it runs on every collection with the null bytes taken out of
\* each row and nothing else changed; the call returns an error exactly
\* when both writes failed; a first write that succeeds is the only write.
C13_SanitizeAndRetryOnce ==
    Called =>
        /\ Len(writes) \in {1, 2}
        /\ writes[1].rows = CallRows
        /\ (Len(writes) = 2) <=> ~writes[1].ok
        /\ Len(writes) = 2 =>
              \A c \in Collections :
                  /\ Len(writes[2].rows[c]) = Len(CallRows[c])
                  /\ \A i \in 1..Len(CallRows[c]) :
                        LET raw == CallRows[c][i]
                            cleaned == writes[2].rows[c][i]
                        IN /\ cleaned.key = raw.key
                           /\ cleaned.fixed = raw.fixed
                           /\ cleaned.text # "nul"
                           /\ raw.text # "nul" => cleaned.text = raw.text
        /\ (result.tag = "Err") <=>
              (Len(writes) = 2 /\ ~writes[1].ok /\ ~writes[2].ok)
        /\ writes[1].ok => (Len(writes) = 1 /\ result.tag = "Ok")

\* A batch with a null byte in its rows: the first write failed, the second
\* ran on rows that differ from the derived ones and succeeded.
C13_Witness ==
    /\ Called
    /\ Len(writes) = 2
    /\ ~writes[1].ok
    /\ writes[2].ok
    /\ writes[2].rows # writes[1].rows
    /\ result.tag = "Ok"
    /\ \E s \in db["transactions"] : s.row.text = "stripped"

(***************************************************************************)
(* C14.  All-or-nothing write.                                             *)
(***************************************************************************)
\* C14: a call of process_transactions that returns an error leaves the
\* committed tables as they were before the call.
C14_AllOrNothing ==
    [][(clock' # clock /\ result'.tag = "Err") => db' = db]_vars

\* A call that failed on a storage that held rows already, after a chunk
\* had been written in the first write and in the retry.
C14_Witness ==
    /\ Called
    /\ result.tag = "Err"
    /\ Len(writes) = 2
    /\ writes[1].done >= 1
    /\ writes[2].done >= 1
    /\ db # EmptyDb
    /\ \E i \in 1..Len(CallRows["transactions"]) :
          \A s \in db["transactions"] :
              s.row.key # CallRows["transactions"][i].key

(***************************************************************************)
(* C15.  Every row collection is written.                                  *)
(***************************************************************************)
\* C15: after a call that returns Ok, every row of every collection
\* derived from the batch is stored under its key in the table of its
\* collection.
C15_EveryCollectionWritten ==
    (Called /\ result.tag = "Ok") =>
        \A c \in Collections :
            \A i \in 1..Len(LastWrite.rows[c]) :
                \E s \in db[c] : s.row.key = LastWrite.rows[c][i].key

(***************************************************************************)
(* C16.  Upsert idempotence.                                               *)
(***************************************************************************)
\* C16: when a batch is applied again after it was applied with success,
\* and the second call succeeds too, the insert-if-absent tables are what
\* they were, and user_transactions holds the same keys, each row of the
\* batch with the text column and inserted_at of the second write and its
\* other columns as they were.
C16_UpsertIdempotence ==
    [][(clock' # clock /\ call' = call /\ result.tag = "Ok" /\ result'.tag = "Ok") =>
          LET rows == writes'[Len(writes')].rows["user_transactions"]
          IN /\ \A c \in Collections \ {"user_transactions"} : db'[c] = db[c]
             /\ {s.row.key : s \in db'["user_transactions"]}
                    = {s.row.key : s \in db["user_transactions"]}
             /\ \A i \in 1..Len(rows) :
                   \E s \in db'["user_transactions"] :
                       /\ s.row.key = rows[i].key
                       /\ s.row.text = rows[i].text
                       /\ s.inserted_at = clock'
                       /\ \E old \in db["user_transactions"] :
                             /\ old.row.key = s.row.key
                             /\ old.row.fixed = s.row.fixed]_vars

(***************************************************************************)
(* C17.  Acknowledged range.                                               *)
(***************************************************************************)
\* C17: a call returns Ok exactly when its last atomic write (the first, or
\* the retry) succeeded, and then the value is the (start_version,
\* end_version) it was called with; otherwise it returns an error; in both
\* cases the process goes on.
C17_AcknowledgedRange ==
    Called =>
        /\ result.tag \in {"Ok", "Err"}
        /\ (result.tag = "Ok") <=> LastWrite.ok
        /\ result.tag = "Ok" =>
              result.range = <<call.start_version, call.end_version>>
        /\ result.tag = "Err" => result.range = <<>>
        /\ panicked = ""

\* A batch whose transactions begin after its start_version (the filter
\* removed the first), acknowledged after the retry.
C17_Witness ==
    /\ Called
    /\ result.tag = "Ok"
    /\ Len(writes) = 2
    /\ call.transactions # <<>>
    /\ Head(call.transactions).version # call.start_version
    /\ result.range = <<call.start_version, call.end_version>>

(***************************************************************************)
(* C18.  Order independence.                                               *)
(***************************************************************************)
RECURSIVE InVersionOrder(_, _, _)
\* The storage after process_transactions on each of the versions alone,
\* lowest version first, one call after the other.
InVersionOrder(versions, d, now) ==
    IF versions = {} THEN d
    ELSE LET v == CHOOSE x \in versions : \A y \in versions : x <= y
         IN InVersionOrder(
                versions \ {v},
                insert_to_db(d, RowCollections(<<Txn(v)>>), now, 0, 0).db,
                now + 1)

\* Every transaction of the permutation has its task, and every task has
\* returned Ok.
AllTasksOk ==
    /\ tasks.unspawned = <<>>
    /\ tasks.spawned # <<>>
    /\ \A i \in 1..Len(tasks.spawned) : tasks.spawned[i].at = "ok"

C19_RetriesEveryFailure ==
    LET made == IF get_stream_at = "connect" THEN attempts.connect
                ELSE attempts.request
    IN /\ attempts.connect <= RECONNECTION_MAX_RETRIES
       /\ attempts.request <= RECONNECTION_MAX_RETRIES
       /\ get_stream_at = "connect" => attempts.request = 0
       /\ panicked # "" => made = RECONNECTION_MAX_RETRIES
       /\ (last_attempt \in {"error", "timeout"}
               /\ made < RECONNECTION_MAX_RETRIES) => panicked = ""

(***************************************************************************)
(* C20.  Protocol violations are fatal and never retried.                  *)
(***************************************************************************)
\* C20: a call that polls a raw batch which is empty, carries no chain id,
\* or does not start at last_fetched_version + 1 aborts the process: it
\* returns no output, does not raise reconnection_retries and leaves the
\* connection as it was.
C20_ProtocolViolationsFatal ==
    [][(/\ response'.kind = "batch"
        /\ \/ response'.transactions = <<>>
           \/ response'.chain_id = None
           \/ FirstVersion(response') # last_fetched_version + 1) =>
          /\ panicked' # ""
          /\ output' = <<>>
          /\ reconnection_retries' <= reconnection_retries
          /\ reconnection_retries' = 0
          /\ resp_stream' = resp_stream]_vars

\* A batch with a gap polled after a batch had been accepted: the process
\* has aborted with the gap panic and nothing was returned.
C20_Witness ==
    /\ response.kind = "batch"
    /\ response.transactions # <<>>
    /\ response.chain_id # None
    /\ accepted_end # None
    /\ FirstVersion(response) > accepted_end + 1
    /\ panicked = "[Parser] Received batch with gap from GRPC stream"
    /\ output = <<>>
    /\ reconnection_retries = 0

(***************************************************************************)
(* C21.  Termination at the ending version.                                *)
(***************************************************************************)
\* C21: with an ending version configured and an upstream that answers
\* every fetch with the next contiguous non-empty batch, the calls
\* eventually return should_continue_fetching = FALSE, and a call returns
\* FALSE exactly when the batch it receives ends at or beyond the ending
\* version (TRUE for every batch that ends before it), so the first FALSE
\* comes with the first such batch.
C21_TerminationAtEnding ==
    /\ <>(Returned /\ Out.should_continue_fetching = FALSE)
    /\ [][/\ panicked' = ""
          /\ output' # <<>>
          /\ output'[1].should_continue_fetching = FALSE
                 <=> LastVersion(response') >= Ending]_vars

\* "Stop" returned with the third batch, which ends beyond the ending
\* version.
C21_Witness ==
    /\ SuccessReturned
    /\ Out.should_continue_fetching = FALSE
    /\ transaction_stream_config.starting_version = 0
    /\ Ending = 2
    /\ FirstVersion(response) = 2
    /\ LastVersion(response) = 3
    /\ Len(Out.transactions) >= 1

(***************************************************************************)
(* C22.  should_skip.                                                      *)
(***************************************************************************)
\* C22: should_skip returns TRUE exactly when there is a previous event,
\* the type of the current event is a v1 key of V1_TO_V2_MAPPING and the
\* type of the previous event is the v2 type mapped to that key; it returns
\* FALSE whenever there is no previous event or the current event is not a
\* mapped v1 type.
C22_ShouldSkip ==
    skip # <<>> =>
        /\ skip[1] = TRUE <=>
              /\ prev_event # <<>>
              /\ \E e \in V1_TO_V2_MAPPING :
                    /\ e[1] = event.type_str
                    /\ e[2] = prev_event[1].type_str
        /\ (prev_event = <<>>
               \/ event.type_str \notin {e[1] : e \in V1_TO_V2_MAPPING}) =>
              skip[1] = FALSE

\* The pair of the unit test: a v1 event right after its v2 event.
C22_Witness ==
    /\ skip = <<TRUE>>
    /\ event.type_str = "0x4::token::MutationEvent"
    /\ prev_event = <<[type_str |-> "0x4::token::Mutation"]>>

(***************************************************************************)
(* C23.  Contiguity is verified before anything else is done to the batch. *)
(***************************************************************************)
\* C23: a call that aborts at the contiguity check has left
\* next_version_to_fetch and last_fetched_version as they were, has not
\* asked the filter about any transaction of the batch and has ticked
\* nothing into the meter.
C23_ContiguityBeforeEffects ==
    [][(/\ response'.kind = "batch"
        /\ panicked' = "[Parser] Received batch with gap from GRPC stream") =>
          /\ next_version_to_fetch' = next_version_to_fetch
          /\ last_fetched_version' = last_fetched_version
          /\ include_calls' = <<>>
          /\ fetch_ma' = <<>>]_vars

(***************************************************************************)
(* C24.  The retry counter is reset by every successful fetch.             *)
(***************************************************************************)
\* C24 as claimed: after a call that polled a raw batch reconnection_retries
\* is 0, and no not-success fetch that is at most the fifth in a row aborts
\* the process.
C24_AsClaimed ==
    /\ response.kind = "batch" => reconnection_retries = 0
    /\ (NotSuccess /\ not_success_run <= RECONNECTION_MAX_RETRIES) =>
          panicked = ""

\* C24, amended: after a call that polled a raw batch reconnection_retries
\* is 0; the reconnection bound aborts the process only at a not-success
\* fetch that is at least the sixth in a row, however many not-success
\* fetches went before the last polled batch; a not-success fetch that is
\* at most the fifth in a row aborts the process only inside the connector
\* or where the identifier of the new connection is read.
C24_RetryCounterReset ==
    /\ response.kind = "batch" => reconnection_retries = 0
    /\ panicked = "[Parser] Reconnected more than 100 times. Will not retry." =>
          /\ NotSuccess
          /\ not_success_run > RECONNECTION_MAX_RETRIES
    /\ (NotSuccess /\ not_success_run <= RECONNECTION_MAX_RETRIES) =>
          \/ panicked = ""
          \/ panicked \in GetStreamPanics
          \/ panicked = ToStrPanic(OpaqueHeader)

\* A batch accepted on a connection that a reconnection opened (the first
\* connection carries no identifier): the counter, raised by that
\* reconnection, is 0 again.
C24_Witness ==
    /\ SuccessReturned
    /\ connection_id # ""
    /\ connections.polled = connection_id
    /\ reconnection_retries = 0
    /\ accepted_end = LastVersion(response)

(***************************************************************************)
(* C25.  Stop is stable and suppresses reconnection.                       *)
(***************************************************************************)
\* C25: once next_version_to_fetch is above the ending version, every call
\* that returns yields should_continue_fetching = FALSE, and a not-success
\* fetch returns without reconnecting: reconnection_retries and the
\* connection are as they were and the process goes on.
C25_StopIsStable ==
    [][PastEnding =>
          /\ (panicked' = "" /\ output' # <<>>) =>
                output'[1].should_continue_fetching = FALSE
          /\ response'.kind \in NotSuccessKinds =>
                /\ panicked' = ""
                /\ output' # <<>>
                /\ reconnection_retries' = reconnection_retries
                /\ resp_stream' = resp_stream
                /\ connection_id' = connection_id]_vars

(***************************************************************************)
(* C26.  A reconnect replaces the connection.                              *)
(***************************************************************************)
\* C26: the stream resp_stream reads and connection_id are always those of
\* the connection get_stream opened last, so that a reconnection has put
\* both in place when the failing call returns; every call polls the
\* connection that was opened last before it, and so does every call that
\* accepts a batch.
C26_ConnectionReplacement ==
    [][/\ connections'.polled = connections.opened
       /\ connections'.stream = connections'.opened
       /\ connection_id' = ConnectionId(connections'.opened)
       /\ (reconnection_retries' = reconnection_retries + 1
               /\ panicked' = "") =>
             /\ output' = <<ContinueOutput(<<>>)>>
             /\ connections'.polled = connections.stream]_vars

\* A batch accepted from connection "b", which took the place of "a".
C26_Witness ==
    /\ SuccessReturned
    /\ connections = [stream |-> "b", opened |-> "b", polled |-> "b"]
    /\ connection_id = "b"
    /\ accepted_end = LastVersion(response)

(***************************************************************************)
(* C27.  The single-batch path.                                            *)
(***************************************************************************)
\* C27: when the included transactions are fewer than the chunk threshold,
\* a successful call returns exactly one output batch, which holds the
\* included transactions in order and reports as size_in_bytes the encoded
\* length of the whole raw batch.
C27_SingleBatchPath ==
    (SuccessReturned /\ Len(Included) < pb_channel_txn_chunk_size) =>
        /\ Len(Out.transactions) = 1
        /\ Out.transactions[1].transactions = Included
        /\ Out.transactions[1].size_in_bytes = EncodedLen(response)

\* One batch of two transactions out of a raw batch of three: its size is
\* that of the three.
C27_Witness ==
    /\ SuccessReturned
    /\ pb_channel_txn_chunk_size = 3
    /\ Len(response.transactions) = 3
    /\ Len(Included) = 2
    /\ Len(Out.transactions) = 1
    /\ Out.transactions[1].size_in_bytes
           > SumLen(Out.transactions[1].transactions) + 2

(***************************************************************************)
(* C28.  Filtering.                                                        *)
(***************************************************************************)
\* C28: the transactions a successful call delivers, over all its output
\* batches, are the raw transactions the predicate includes, in their
\* order; the predicate was asked once about every raw transaction, in
\* order; the count added to the filtered-out counter is the raw count
\* minus the delivered count.
C28_Filtering ==
    SuccessReturned =>
        /\ Flatten(Out.transactions) = Included
        /\ include_calls = response.transactions
        /\ filtered_out =
              Len(response.transactions) - Len(Flatten(Out.transactions))

\* Versions 0, 1, 2 under the filter of even versions and threshold 1: two
\* batches, version 1 counted as filtered out.
C28_Witness ==
    /\ SuccessReturned
    /\ transaction_filter = "even"
    /\ response.transactions = Run(0, 3)
    /\ Len(Out.transactions) = 2
    /\ Flatten(Out.transactions) = <<Txn(0), Txn(2)>>
    /\ filtered_out = 1

(***************************************************************************)
(* C29.  The throughput meter.                                             *)
(***************************************************************************)
\* C29: a call that polls a raw batch and returns has ticked the meter
\* once, with the number of transactions the raw batch had before the
\* filter ran; a call that polls a batch and aborts has ticked it at most
\* once; a not-success call, with or without a reconnection, has not
\* touched it.
C29_ThroughputMeter ==
    /\ SuccessReturned => fetch_ma = <<Len(response.transactions)>>
    /\ response.kind = "batch" =>
          fetch_ma \in {<<>>, <<Len(response.transactions)>>}
    /\ NotSuccess => fetch_ma = <<>>

\* A raw batch of three of which the filter removed all: the meter got 3.
C29_Witness ==
    /\ SuccessReturned
    /\ Len(response.transactions) = 3
    /\ Included = <<>>
    /\ fetch_ma = <<3>>

(***************************************************************************)
(* C30.  The requested transaction count.                                  *)
(***************************************************************************)
\* C30: get_stream computes the count without aborting, and the request
\* of the stream it returns carries ending_version - starting_version + 1,
\* a value of at least 1, when an ending version is configured, and no
\* count otherwise.
C30_RequestedCount ==
    /\ panicked # "attempt to compute the count with overflow"
    /\ get_stream_at = "returned" =>
          IF Ending = None
          THEN resp_stream.transactions_count = None
          ELSE /\ resp_stream.transactions_count =
                     Ending - transaction_stream_config.starting_version + 1
               /\ resp_stream.transactions_count >= 1

(***************************************************************************)
(* C31.  Chain-id discovery.                                               *)
(***************************************************************************)
\* C31: every call of get_chain_id that gets a stream from the connector has
\* requested starting version 1 and count 2, whatever range the stream is
\* configured with; it returns exactly when the first item of that stream is
\* a response with a chain id, and then returns that chain id; it aborts
\* when the first item is an error, the end of the stream or a response
\* without chain id; and it leaves the cursor, the retry counter and the
\* connection of the stream as they were, polling nothing from it.
C31_ChainIdDiscovery ==
    [][chain_id_call' # chain_id_call =>
          /\ chain_id_call'.request.starting_version # None =>
                chain_id_call'.request =
                    [starting_version |-> 1, transactions_count |-> 2]
          /\ chain_id_call'.at = "returned" =>
                /\ panicked' = ""
                /\ chain_id_call'.first.kind = "batch"
                /\ chain_id_call'.chain_id \in ChainIds \ {None}
                /\ chain_id_call'.chain_id = chain_id_call'.first.chain_id
          /\ chain_id_call'.first.kind \in {"rpc_error", "stream_end"} =>
                (chain_id_call'.at = "aborted" /\ panicked' # "")
          /\ (chain_id_call'.first.kind = "batch"
                  /\ chain_id_call'.first.chain_id = None) =>
                (chain_id_call'.at = "aborted" /\ panicked' # "")
          /\ chain_id_call'.at \in {"returned", "aborted"}
          /\ next_version_to_fetch' = next_version_to_fetch
          /\ last_fetched_version' = last_fetched_version
          /\ reconnection_retries' = reconnection_retries
          /\ resp_stream' = resp_stream
          /\ connections' = connections
          /\ response' = response]_vars

\* A chain id returned to a caller whose stream is configured with another
\* range than 1..2 and has delivered a batch; the stream is still in use.
C31_Witness ==
    /\ chain_id_call.at = "returned"
    /\ chain_id_call.chain_id = 2
    /\ ~chain_id_call.moved
    /\ transaction_stream_config =
           [starting_version |-> 0, request_ending_version |-> None]
    /\ accepted_end = 2
    /\ next_version_to_fetch = 3

(***************************************************************************)
(* C32.  The connection identifier does not interfere.                     *)
(***************************************************************************)
\* C32: of two runs of the stream with the same configuration, the same
\* polled items and the same network, whatever connection identifiers the
\* server sends in each, every call returns the same output, leaves the
\* same cursor and ends in the same panic or in none.
C32_IdentifierNonInterference ==
    (runs.phase = "second" /\ runs.pos >= 1) =>
        Observed = runs.trace[runs.pos]

(***************************************************************************)
(* C33.  Table metadata grouping.                                          *)
(***************************************************************************)
\* The metadata the table details of the call carry, in the order of the
\* write set changes.
MetadataSeen == ExtraTagged(grouping.wsc_details, "Table")

\* C33: the table_metadata handed to insert_to_db is in strictly ascending
\* handle order, so no handle has two rows; it has a row for every handle
\* seen and for no other; and the row of a handle is the metadata of the
\* last write set change of the call that carries that handle.
C33_TableMetadataGrouping ==
    grouping.at = "grouped" =>
        LET tm == grouping.table_metadata
        IN /\ \A i, j \in 1..Len(tm) : i < j => tm[i].key < tm[j].key
           /\ {tm[i].key : i \in 1..Len(tm)} =
                  {MetadataSeen[i].key : i \in 1..Len(MetadataSeen)}
           /\ \A i \in 1..Len(tm) :
                 \E k \in 1..Len(MetadataSeen) :
                     /\ tm[i] = MetadataSeen[k]
                     /\ \A l \in (k + 1)..Len(MetadataSeen) :
                           MetadataSeen[l].key # tm[i].key

\* Handle 2 seen twice with different metadata around handle 1: the later
\* metadata of handle 2 is kept, behind that of handle 1.
C33_Witness ==
    /\ grouping.at = "grouped"
    /\ MetadataSeen = <<Row(2, "plain", "u64"), Row(1, "plain", "u64"),
                        Row(2, "plain", "address")>>
    /\ grouping.table_metadata =
           <<Row(1, "plain", "u64"), Row(2, "plain", "address")>>

(***************************************************************************)
(* C34.  The stream new returns is connected.                              *)
(***************************************************************************)
\* The stream as new returned it: no call has been made on it.
JustBuilt ==
    /\ construction.at = "built"
    /\ response = NoResponse
    /\ output = <<>>

\* C34: new returns after exactly one call of the connector; the stream it
\* returns has next_version_to_fetch = starting_version,
\* last_fetched_version = starting_version - 1 and reconnection_retries = 0;
\* and once new has returned the connection is there in every state, so
\* that no call ends in the panic of a stream that is not initialized.
C34_InitialStateConnected ==
    /\ construction.at = "built" =>
          /\ construction.get_stream_calls = 1
          /\ resp_stream # NotOpened
          /\ panicked #
                 "[Parser] GRPC stream is not initialized. Did you call init_stream?"
    /\ JustBuilt =>
          /\ next_version_to_fetch = transaction_stream_config.starting_version
          /\ last_fetched_version =
                 transaction_stream_config.starting_version - 1
          /\ reconnection_retries = 0

(***************************************************************************)
(* C35.  The two cursors move together.                                    *)
(***************************************************************************)
\* C35: when new has returned, and after every call of
\* get_next_transaction_batch that returns, next_version_to_fetch =
\* last_fetched_version + 1.
C35_CursorCoupling ==
    (construction.at = "built" /\ panicked = "") =>
        next_version_to_fetch = last_fetched_version + 1

(***************************************************************************)
(* C36.  A successful fetch returns at least one output batch.             *)
(***************************************************************************)
\* C36: a call that polls a raw batch and returns hands over at least one
\* output batch; in the chunked path (the included transactions are at
\* least the chunk threshold) no output batch is empty; and when the filter
\* includes no transaction of the raw batch the call hands over exactly one
\* output batch, which has no transactions and the span of the raw batch.
C36_AtLeastOneBatch ==
    SuccessReturned =>
        /\ Len(Out.transactions) >= 1
        /\ Len(Included) >= pb_channel_txn_chunk_size =>
              \A i \in 1..Len(Out.transactions) :
                  Out.transactions[i].transactions # <<>>
        /\ Included = <<>> =>
              /\ Len(Out.transactions) = 1
              /\ Out.transactions[1].transactions = <<>>
              /\ Out.transactions[1].start_version = FirstVersion(response)
              /\ Out.transactions[1].end_version = LastVersion(response)

\* A raw batch of three transactions of which the filter includes none:
\* one empty output batch with the span of the three.
C36_Witness ==
    /\ SuccessReturned
    /\ Len(response.transactions) = 3
    /\ Included = <<>>
    /\ Len(Out.transactions) = 1
    /\ Out.transactions[1].transactions = <<>>
    /\ Out.transactions[1].end_version = Out.transactions[1].start_version + 2

(***************************************************************************)
(* C39.  Byte accounting bound.                                            *)
(***************************************************************************)
RECURSIVE SumSizes(_)
\* The sum of size_in_bytes over a list of output batches.
SumSizes(batches) ==
    IF batches = <<>> THEN 0
    ELSE Head(batches).size_in_bytes + SumSizes(Tail(batches))

\* C39: the sizes of the output batches of a successful call add up to no
\* more than the encoded length of the raw batch: to exactly that length
\* in the single-batch path, and in the chunked path to the encoded length
\* divided (integer division) by the raw transaction count, times the
\* number of included transactions.
C39_ByteAccountingBound ==
    SuccessReturned =>
        /\ SumSizes(Out.transactions) <= EncodedLen(response)
        /\ Len(Included) < pb_channel_txn_chunk_size =>
              SumSizes(Out.transactions) = EncodedLen(response)
        /\ Len(Included) >= pb_channel_txn_chunk_size =>
              SumSizes(Out.transactions) =
                  (EncodedLen(response) \div Len(response.transactions))
                      * Len(Included)

\* Several chunks whose sizes add up to less than the encoded length of
\* the raw batch although the filter removed nothing: the division rounded.
C39_Witness ==
    /\ SuccessReturned
    /\ Len(Out.transactions) >= 2
    /\ Len(Included) = Len(response.transactions)
    /\ SumSizes(Out.transactions) < EncodedLen(response)
    /\ SumSizes(Out.transactions) > 0

(***************************************************************************)
(* C37.  EventStreamProcessor acknowledges every range.                    *)
(***************************************************************************)
\* C37: process_transactions never aborts, whatever range it is handed, a
\* range without transactions included; and the result it returns carries
\* the start_version and end_version it was given.
C37_AcknowledgesEveryRange ==
    /\ event_stream.at # "aborted"
    /\ event_stream.at = "returned" =>
          /\ event_stream.result[1].start_version = event_stream.start_version
          /\ event_stream.result[1].end_version = event_stream.end_version

(***************************************************************************)
(* C38.  EventStreamProcessor cache writes.                                *)
(***************************************************************************)
\* C38: the cache inserts of a call are, in order, one per input
\* transaction, each under the version of its transaction; the first insert
\* is made when every transaction of the range has been transformed, so a
\* call that aborts while transforming has inserted nothing; and a call
\* that returns has inserted an entry for every input transaction.
C38_CacheWrites ==
    LET cache == event_stream.cache
        transactions == event_stream.transactions
    IN /\ Len(cache) <= Len(transactions)
       /\ \A k \in 1..Len(cache) :
             /\ cache[k].key = transactions[k].version
             /\ cache[k].value.transaction_version = transactions[k].version
       /\ cache # <<>> => Len(event_stream.batch) = Len(transactions)
       /\ (event_stream.at = "aborted"
               /\ Len(event_stream.batch) < Len(transactions)) => cache = <<>>
       /\ event_stream.at = "returned" => Len(cache) = Len(transactions)

\* A call that aborts on its second transaction, the first one transformed:
\* nothing is in the cache.
C38_Witness ==
    /\ event_stream.at = "aborted"
    /\ Len(event_stream.batch) = 1
    /\ Len(event_stream.transactions) = 2
    /\ event_stream.cache = <<>>
====
